---------------------------- MODULE Spec2Model ----------------------------
(***************************************************************************)
(* A model of the LocalAINews bot: the query pools and fetch_article       *)
(* (news.py), the summarizer (lmstudio_helpers.py), the poll loop and the  *)
(* hourly reset loop (tasks.py), the moderation queue and its lock         *)
(* (state module, defined in backup.py) and the accept / reject handlers   *)
(* (discord_bot.py).                                                       *)
(***************************************************************************)
EXTENDS Integers, Sequences, FiniteSets, Bags, TLC

VARIABLES
    cfg,                  \* config.py: which settings the environment gave
    topics,               \* the terms load_topics_from_file read at import
    available_queries,    \* news.py:13
    used_queries,         \* news.py:14
    sum_pc,               \* summarize_with_lmstudio: "idle" or "returned"
    sum_in,               \* the service's answers to the call being modelled
    sum_out,              \* what the call did: raised / value / requests sent
    unactioned_articles,  \* the moderation queue (backup.py:52)
    unactioned_articles_lock, \* its asyncio.Lock: "free" or the holder
    poll_pc,              \* where fetch_and_post_articles stands
    current_hour,         \* its local current_hour (tasks.py:24)
    article_post,         \* its local article_post (tasks.py:40)
    fetch_call,           \* the last fetch_article call: inputs, requests, result
    fetched,              \* the articles fetch_article has returned (a bag)
    world,                \* what this run covers: whether fetch_call is
                          \* recorded, what the completion service answers,
                          \* whether polling goes on after MaxArticles
    review_channel,       \* the review posts, oldest first
    public_channel,       \* the articles sent to the public channel
    handlers,             \* the accept / reject callbacks started so far
    reset_hour,           \* reset_queries_every_morning's current_hour
                          \* (tasks.py:86) at its last wake
    now,                  \* the overnight wait's last clock reading, as the
                          \* minute of the day (tasks.py:23, 76)
    sleep_seconds,        \* its local sleep_seconds (tasks.py:67, 75)
    night_pc,             \* where the overnight wait stands
    main_pc,              \* where main() stands (main.py:21-36)
    render_pc,            \* the embed builders: "idle" or "built"
    render_in,            \* the article handed to them
    embed,                \* the embeds they built
    limit_pc,             \* where handle_api_limit stands (news.py:34-44)
    limit_seconds,        \* its local sleep_seconds (news.py:37, 40)
    limit_log,            \* its sleeps so far: the seconds slept and the
                          \* minutes the print after it names
    reset_log,            \* the last two resets of the hourly loop: the
                          \* pools before and after (tasks.py:87-90)
    win_impl,             \* the poll loop whose hour tests are followed:
                          \* "tasks" (tasks.py) or "backup" (backup.py)
    win_hour,             \* its local current_hour
    win_now,              \* the hour of its local now, read again in the
                          \* overnight wait
    win_fetch,            \* whether this iteration took the fetch branch
    win_pc                \* where that loop stands

sumVars == <<sum_pc, sum_in, sum_out>>
poolVars == <<available_queries, used_queries>>
pollVars == <<poll_pc, current_hour, article_post, fetch_call, fetched>>
modVars == <<unactioned_articles, unactioned_articles_lock, review_channel,
             public_channel, handlers>>

envVars == <<cfg, topics, world>>

nightVars == <<now, sleep_seconds, night_pc>>
renderVars == <<render_pc, render_in, embed>>

limitVars == <<limit_pc, limit_seconds, limit_log>>
windowVars == <<win_impl, win_hour, win_now, win_fetch, win_pc>>
lateVars == <<limitVars, reset_log, windowVars>>

\* What the poll loop, the summarizer and the moderation handlers leave alone.
asideVars == <<reset_hour, nightVars, main_pc, renderVars, lateVars>>

vars == <<envVars, asideVars, poolVars, sumVars, pollVars, modVars>>

-----------------------------------------------------------------------------
(* Values.  Python's None and a missing mapping key are records / strings   *)
(* of their own so that they compare with every other value.                *)

None == [type |-> "None"]
Absent == "<absent>"

\* A mapping as json.loads gives it; a key the text lacks is Absent (an
\* absent key_points reads as the empty list, as summary.get("key_points", [])).
Mapping(t, kp, why) ==
    [type |-> "dict", title |-> t, key_points |-> kp, why_it_matters |-> why]

JsonList == [type |-> "list"]

SummaryA == Mapping("A", <<"p1", "p2", "p3">>, "w")
SummaryB == Mapping("B", <<"q1", "q2", "q3">>, Absent)
SummaryP == Mapping("P", <<"r1", "r2", "r3">>, "v")

\* The texts a completion may carry in content or in tool-call arguments.
Texts == {"oops", "[1]", "{}", "{title:''}", "{title:A}", "{title:B}"}

\* lmstudio_helpers.py:40-44: json.loads, None when it raises.
safe_json_parse(text) ==
    CASE text = "[1]"        -> JsonList
      [] text = "{}"         -> Mapping(Absent, <<>>, Absent)
      [] text = "{title:''}" -> Mapping("", <<>>, Absent)
      [] text = "{title:A}"  -> SummaryA
      [] text = "{title:B}"  -> SummaryB
      [] OTHER               -> None

\* (msg.get("content") or "").strip(): a missing content is the empty text.
ContentText(c) == IF c = Absent THEN "" ELSE c

\* isinstance(parsed, dict) and parsed.get("title")
Accepted(v) == v.type = "dict" /\ v.title # Absent /\ v.title # ""

-----------------------------------------------------------------------------
(* The completion service.  A response is what requests.post gave: a        *)
(* network failure, or a status with a body that may or may not be JSON and *)
(* whose choices[0].message carries parsed / content / tool-call arguments. *)

Msg(parsed, content, tool_args) ==
    [parsed |-> parsed, content |-> content, tool_args |-> tool_args]

EmptyMsg == Msg(None, Absent, Absent)

NetFailure(kind) == [net |-> kind, status |-> 0, json |-> FALSE, msg |-> EmptyMsg]
HttpStatus(s) == [net |-> "ok", status |-> s, json |-> FALSE, msg |-> EmptyMsg]
NotJson == [net |-> "ok", status |-> 200, json |-> FALSE, msg |-> EmptyMsg]
Ok(msg) == [net |-> "ok", status |-> 200, json |-> TRUE, msg |-> msg]

\* lmstudio_helpers.py:119: the statuses read as "schema mode not accepted".
SchemaFallbackCodes == {400, 404, 415, 422, 500}

\* Statuses the service answers with when it does not answer 200.
ErrorStatuses == SchemaFallbackCodes \cup {503}

FailResponses ==
    {NetFailure("conn"), NetFailure("other"), NotJson}
        \cup {HttpStatus(s) : s \in ErrorStatuses}

ParsedVals == {None, SummaryP, Mapping(Absent, <<>>, Absent), JsonList}
Contents == {Absent} \cup (Texts \ {"oops"})
ToolArgs == {Absent, "oops", "{title:''}", "{title:A}", "{title:B}"}

SchemaResponses ==
    FailResponses \cup {Ok(Msg(p, c, Absent)) : p \in ParsedVals, c \in Contents}
ToolResponses ==
    FailResponses \cup {Ok(Msg(None, c, t)) : c \in Contents, t \in ToolArgs}
PlainResponses ==
    FailResponses \cup {Ok(Msg(None, c, Absent)) : c \in Contents}

\* What GET /v1/models gives: a failure, or a list that holds the configured
\* model id or not.
ModelListings == {"error", "listed", "unlisted"}

\* The three requests of summarize_with_lmstudio, by what their payload holds.
SchemaRequest == [system |-> "schema", response_format |-> TRUE, tools |-> FALSE]
ToolRequest(use_tools) ==
    [system |-> "summarizer", response_format |-> FALSE, tools |-> use_tools]
PlainRequest == [system |-> "plain", response_format |-> FALSE, tools |-> FALSE]

\* A strategy's outcome: it returned `value`, or it fell through to the next.
Return(v) == [done |-> TRUE, value |-> v]
FallThrough == [done |-> FALSE, value |-> None]

\* r.raise_for_status() followed by r.json(): TRUE when either raises.
BodyFails(r) == r.net # "ok" \/ r.status >= 400 \/ ~r.json

\* lmstudio_helpers.py:117-137: the schema-constrained request.
SchemaAttempt(r) ==
    IF r.net = "conn" THEN Return(None)
    ELSE IF r.net # "ok" THEN FallThrough
    ELSE IF r.status \in SchemaFallbackCodes THEN FallThrough
    ELSE IF BodyFails(r) THEN FallThrough
    ELSE IF Accepted(r.msg.parsed) THEN Return(r.msg.parsed)
    ELSE LET parsed2 == safe_json_parse(ContentText(r.msg.content))
         IN  IF Accepted(parsed2) THEN Return(parsed2) ELSE FallThrough

\* The second request read the other way round: the arguments of the first
\* tool call first, then the content.
ToolAttemptArgsFirst(r) ==
    IF BodyFails(r) THEN FallThrough
    ELSE LET parsed == safe_json_parse(ContentText(r.msg.content))
             parsed2 == safe_json_parse(r.msg.tool_args)
         IN  IF r.msg.tool_args # Absent /\ Accepted(parsed2) THEN Return(parsed2)
             ELSE IF Accepted(parsed) THEN Return(parsed)
             ELSE FallThrough

\* lmstudio_helpers.py:163-182: the second request; content first, then the
\* arguments of the first tool call.
ToolAttempt(r) ==
    IF BodyFails(r) THEN FallThrough
    ELSE LET parsed == safe_json_parse(ContentText(r.msg.content))
         IN  IF Accepted(parsed) THEN Return(parsed)
             ELSE IF r.msg.tool_args = Absent THEN FallThrough
             ELSE LET parsed2 == safe_json_parse(r.msg.tool_args)
                  IN  IF Accepted(parsed2) THEN Return(parsed2) ELSE FallThrough

\* lmstudio_helpers.py:184-206: the plain-instruction request.
PlainAttempt(r) ==
    IF BodyFails(r) THEN FallThrough
    ELSE LET parsed3 == safe_json_parse(ContentText(r.msg.content))
         IN  IF Accepted(parsed3) THEN Return(parsed3) ELSE FallThrough

\* lmstudio_helpers.py:25-37: the ids listed; [] on any failure, also when
\* LMSTUDIO_BASE_URL is None (the AttributeError is caught).
lmstudio_models(c, listing) ==
    IF ~c.LMSTUDIO_BASE_URL \/ listing = "error" THEN {}
    ELSE IF listing = "listed" THEN {"configured", "other"}
    ELSE {"other"}

\* What a call of summarize_with_lmstudio did.
Outcome(raised, value, requests, warned) ==
    [raised |-> raised, value |-> value, requests |-> requests, warned |-> warned]

\* The second payload with tools attached whatever LM_USE_TOOLS says.
SecondRequestAlwaysTools(c) == ToolRequest(TRUE)

\* The second strategy's payload, lmstudio_helpers.py:150-161.
SecondRequest(c) == ToolRequest(c.LM_USE_TOOLS)

\* The second strategy ending the call when it brings nothing.
AfterSchemaGivesUp(c, warned, r2, r3) ==
    Outcome(FALSE, ToolAttempt(r2).value, <<SchemaRequest, SecondRequest(c)>>,
            warned)

\* The strategies after the schema request fell through.
AfterSchema(c, warned, r2, r3) ==
    LET s2 == ToolAttempt(r2)
        s3 == PlainAttempt(r3)
    IN  IF s2.done
        THEN Outcome(FALSE, s2.value, <<SchemaRequest, SecondRequest(c)>>, warned)
        ELSE Outcome(FALSE, IF s3.done THEN s3.value ELSE None,
                     <<SchemaRequest, SecondRequest(c), PlainRequest>>, warned)

\* lmstudio_helpers.py:74-209.  looks_like_instruct_model(None) raises at
\* line 79 and None.rstrip raises at line 84, both outside every try.
summarize_with_lmstudio(c, listing, r1, r2, r3) ==
    LET models == lmstudio_models(c, listing)
        warned == models # {} /\ "configured" \notin models
        s1 == SchemaAttempt(r1)
    IN  IF ~c.LMSTUDIO_MODEL THEN Outcome(TRUE, None, <<>>, warned)
        ELSE IF ~c.LMSTUDIO_BASE_URL THEN Outcome(TRUE, None, <<>>, warned)
        ELSE IF s1.done THEN Outcome(FALSE, s1.value, <<SchemaRequest>>, warned)
        ELSE AfterSchema(c, warned, r2, r3)

-----------------------------------------------------------------------------
(* Configuration: which settings the environment gave (config.py:12-26).    *)
(* main() calls ensure_token() only (main.py:22), so every other setting    *)
(* may be missing in a running bot.                                         *)

Configs ==
    [NEWS_API_KEY : BOOLEAN, LMSTUDIO_BASE_URL : BOOLEAN,
     LMSTUDIO_MODEL : BOOLEAN, LM_USE_TOOLS : BOOLEAN]

FullConfig(use_tools) ==
    [NEWS_API_KEY |-> TRUE, LMSTUDIO_BASE_URL |-> TRUE,
     LMSTUDIO_MODEL |-> TRUE, LM_USE_TOOLS |-> use_tools]

\* The configurations the whole-bot specification starts from: everything
\* set, the model id missing, the search key missing.
BotConfigs ==
    {FullConfig(FALSE),
     [FullConfig(FALSE) EXCEPT !.LMSTUDIO_MODEL = FALSE],
     [FullConfig(FALSE) EXCEPT !.NEWS_API_KEY = FALSE]}

-----------------------------------------------------------------------------
(* The search service and the articles built from its results.              *)

Terms == {"climate", "AI"}
Links == {"L1", "L2"}

\* Longest topics file the model starts from.
MaxTopics == 2

RECURSIVE SeqsUpTo(_, _)
SeqsUpTo(S, n) ==
    IF n = 0 THEN {<<>>}
    ELSE LET shorter == SeqsUpTo(S, n - 1)
         IN  shorter \cup {Append(q, x) : q \in shorter, x \in S}

\* news.py:17-31: the non-blank lines of topics.txt, [] when it is absent.
TopicFiles == SeqsUpTo(Terms, MaxTopics)

Str(t) == [type |-> "str", text |-> t]

\* articles[0] of a 200 response, by its url: L2 comes without description.
SearchArticle(l) ==
    [title |-> IF l = "L1" THEN "Title1" ELSE "Title2",
     source |-> "Pub",
     description |-> IF l = "L1" THEN Str("desc1") ELSE None,
     url |-> l]

\* What requests.get gives for one term: 429, any other failure (network
\* error, error status, body that is not JSON), no result, a top result, or
\* a top result whose "source" is not an object (a malformed payload: line
\* 92 calls .get on it).
SearchResponses ==
    {[kind |-> k, url |-> ""] : k \in {"429", "error", "empty"}}
        \cup {[kind |-> "article", url |-> l] : l \in Links}
        \cup {[kind |-> "bad_source", url |-> "L1"]}

\* news.py:90-95: the Article built from a result.
BuildArticle(a) ==
    [title |-> a.title,
     source |-> a.source,
     summary |-> IF a.description = None
                 THEN Str("No description available.") ELSE a.description,
     link |-> a.url]

\* The completion service as the whole-bot specification sees it: schema
\* mode rejected or answered with a parsed summary, later requests failing.
BotSchemaResponses == {HttpStatus(422), Ok(Msg(SummaryP, Absent, Absent))}
BotLaterResponses == {NotJson}

World(obs, schema_responses, poll_on) ==
    [observe |-> obs, schema_responses |-> schema_responses,
     poll_on |-> poll_on, watch |-> {}]

\* The same run, recording the locals named in `what` as well.
Watch(w, what) == [w EXCEPT !.watch = what]

\* news.py:96: what summarize_with_lmstudio(result) can do under config c.
LmResults(c) ==
    {[raised |-> o.raised, value |-> o.value] :
        o \in {summarize_with_lmstudio(c, "listed", r1, r2, r3) :
                 r1 \in world.schema_responses, r2 \in BotLaterResponses,
                 r3 \in BotLaterResponses}}

-----------------------------------------------------------------------------
(* The query pools and fetch_article (news.py:47-110).                      *)

Range(q) == {q[i] : i \in 1..Len(q)}

\* list.remove: the first occurrence goes.
Remove(q, x) ==
    LET i == CHOOSE k \in 1..Len(q) : q[k] = x /\ \A j \in 1..(k - 1) : q[j] # x
    IN  SubSeq(q, 1, i - 1) \o SubSeq(q, i + 1, Len(q))

\* random.shuffle: every order of the list.
Shuffles(q) ==
    {[i \in 1..Len(q) |-> q[p[i]]] : p \in Permutations(1..Len(q))}

\* The refill with used_queries.clear() left out.
RefillKeepsUsed(avail, used) ==
    IF avail = <<>> THEN [available |-> avail \o used, used |-> used]
    ELSE [available |-> avail, used |-> used]

\* news.py:54-58: the refill when available is empty.
Refill(avail, used) ==
    IF avail = <<>> THEN [available |-> avail \o used, used |-> <<>>]
    ELSE [available |-> avail, used |-> used]

\* The commit with available_queries.remove(query) left out.
CommitKeepsTerm(avail, used, query) ==
    [available |-> avail, used |-> Append(used, query)]

\* news.py:87-89: the term moves from available to used.
Commit(avail, used, query) ==
    [available |-> Remove(avail, query), used |-> Append(used, query)]

\* The duplicate test left out.
ExcludedNever(url, recent_urls) == FALSE

\* news.py:84: url in recent_urls.
Excluded(url, recent_urls) == url \in recent_urls

FetchResult(result, avail, used, log, limited) ==
    [result |-> result, available |-> avail, used |-> used, log |-> log,
     limited |-> limited]

\* news.py:96-103: the summary replaces the description when there is one.
Enrich(article, lm) ==
    IF lm.value # None THEN [article EXCEPT !.summary = lm.value] ELSE article

\* news.py:69-110: the loop over the snapshot list(available_queries), one
\* search request per term, as the set of ways it can end.  An exception
\* raised while the result is built (line 92) or by summarize_with_lmstudio
\* (line 96) is caught by line 106 like any other: the loop goes on with
\* the next term, after the commit.
RECURSIVE FetchLoop(_, _, _, _, _, _)
FetchLoop(todo, avail, used, log, recent_urls, c) ==
    IF todo = <<>> THEN {FetchResult(None, avail, used, log, FALSE)}
    ELSE
      LET query == Head(todo)
          After(r) ==
            LET log2 == Append(log, [query |-> query, response |-> r,
                                     available |-> avail, used |-> used])
                next == FetchLoop(Tail(todo), avail, used, log2, recent_urls, c)
            IN  IF r.kind = "429"
                THEN {FetchResult(None, avail, used, log2, TRUE)}
                ELSE IF r.kind \in {"error", "empty"} THEN next
                ELSE IF Excluded(r.url, recent_urls) THEN next
                ELSE IF query \notin Range(avail) THEN next
                ELSE
                  LET pools == Commit(avail, used, query)
                      result == BuildArticle(SearchArticle(r.url))
                      Summarized(lm) ==
                        IF lm.raised
                        THEN FetchLoop(Tail(todo), pools.available, pools.used,
                                       log2, recent_urls, c)
                        ELSE {FetchResult(Enrich(result, lm), pools.available,
                                          pools.used, log2, FALSE)}
                  IN  IF r.kind = "bad_source"
                      THEN FetchLoop(Tail(todo), pools.available, pools.used,
                                     log2, recent_urls, c)
                      ELSE UNION {Summarized(lm) : lm \in LmResults(c)}
      IN  UNION {After(r) : r \in SearchResponses}

\* One fetch_article call as the poll loop sees it: the pools it found, the
\* order the shuffle gave, the requests in `log`, what it returned, and
\* whether it ended in the rate-limit wait.
FetchCall(avail0, used0, recent_urls, order, r) ==
    [called |-> TRUE, before_available |-> avail0, before_used |-> used0,
     recent_urls |-> recent_urls, order |-> order, log |-> r.log,
     result |-> r.result, available |-> r.available, used |-> r.used,
     limited |-> r.limited]

NoFetchCall ==
    [called |-> FALSE, before_available |-> <<>>, before_used |-> <<>>,
     recent_urls |-> {}, order |-> <<>>, log |-> <<>>, result |-> None,
     available |-> <<>>, used |-> <<>>, limited |-> FALSE]

\* The call giving up after its first candidate.
FetchTriesOneTerm(avail, used, recent_urls, c) ==
    IF ~c.NEWS_API_KEY
    THEN {FetchCall(avail, used, recent_urls, <<>>,
                    FetchResult(None, avail, used, <<>>, FALSE))}
    ELSE LET pools == Refill(avail, used)
         IN  UNION {{FetchCall(avail, used, recent_urls, order, r) :
                        r \in FetchLoop(IF order = <<>> THEN <<>>
                                        ELSE <<Head(order)>>,
                                        order, pools.used, <<>>,
                                        recent_urls, c)} :
                    order \in Shuffles(pools.available)}

\* The call taking the terms of used as candidates as well.
FetchQueriesUsedToo(avail, used, recent_urls, c) ==
    IF ~c.NEWS_API_KEY
    THEN {FetchCall(avail, used, recent_urls, <<>>,
                    FetchResult(None, avail, used, <<>>, FALSE))}
    ELSE LET pools == Refill(avail, used)
         IN  UNION {{FetchCall(avail, used, recent_urls, order, r) :
                        r \in FetchLoop(order \o pools.used, order, pools.used,
                                        <<>>, recent_urls, c)} :
                    order \in Shuffles(pools.available)}

\* news.py:47-110: every way one call can go.  Without NEWS_API_KEY it
\* returns before the refill and the shuffle.
fetch_article(avail, used, recent_urls, c) ==
    IF ~c.NEWS_API_KEY
    THEN {FetchCall(avail, used, recent_urls, <<>>,
                    FetchResult(None, avail, used, <<>>, FALSE))}
    ELSE LET pools == Refill(avail, used)
         IN  UNION {{FetchCall(avail, used, recent_urls, order, r) :
                        r \in FetchLoop(order, order, pools.used, <<>>,
                                        recent_urls, c)} :
                    order \in Shuffles(pools.available)}

-----------------------------------------------------------------------------
(* The review channel, the dedup scan and the poll loop (tasks.py:21-80,    *)
(* discord_bot.py:22-42).                                                   *)

\* The hours a reading of datetime.now().hour is drawn from: the first and
\* the last active hour and the quiet hours next to them.
Hours == {8, 9, 21, 22}

\* The window with its upper end included.
ActiveHourThrough22(h) == 9 <= h /\ h <= 22

\* tasks.py:27: 9 <= current_hour < 22.
ActiveHour(h) == 9 <= h /\ h < 22

\* discord_bot.py:26: channel.history(limit=50).
HistoryLimit == 50

\* Fresh articles the search service yields in one run.  Once fetch_article
\* has returned that many, its later calls are those that return None
\* (world.poll_on), or the run follows the poll loop no further.
MaxArticles == 2

\* Button presses the model follows.
MaxClicks == 2

Min(a, b) == IF a < b THEN a ELSE b

\* A review post: the article of its embed and view, the number of messages
\* sent to the channel after it (counted up to HistoryLimit), whether the
\* buttons are still on it, and the content an edit gave it.
ReviewPost(article) ==
    [article |-> article, newer |-> 0, controls |-> TRUE, edited |-> "no"]

Older(channel, k) ==
    [i \in 1..Len(channel) |->
        [channel[i] EXCEPT !.newer = Min(@ + k, HistoryLimit)]]

\* The scan finding no link at all.
ScanFindsNothing(channel) == {}

\* The scan reading the newest message only.
ScanNewestOnly(channel) ==
    {channel[i].article.link :
        i \in {j \in 1..Len(channel) : channel[j].newer < 1}}

\* discord_bot.py:22-33: the Link fields of the bot's posts among the last
\* HistoryLimit messages.
get_all_recent_bot_article_urls(channel) ==
    {channel[i].article.link :
        i \in {j \in 1..Len(channel) : channel[j].newer < HistoryLimit}}

\* Other messages arrive in the review channel (moderators talking), one
\* short of a full history window at a time.
Chatter ==
    /\ \E i \in 1..Len(review_channel) : review_channel[i].newer < HistoryLimit
    /\ review_channel' = Older(review_channel, HistoryLimit - 1)
    /\ UNCHANGED <<envVars, asideVars, poolVars, sumVars, pollVars,
                   unactioned_articles, unactioned_articles_lock,
                   public_channel, handlers>>

\* The clock step with the loop ending when the review channel is not
\* resolved.
PollClockUnresolvedEnds ==
    /\ poll_pc = "clock"
    /\ BagCardinality(fetched) < MaxArticles \/ world.poll_on
    /\ \E h \in Hours :
          /\ current_hour' = h
          /\ IF ActiveHour(h)
             THEN \E resolved \in BOOLEAN :
                     poll_pc' = IF resolved THEN "scan" ELSE "crashed"
             ELSE poll_pc' = "night"
    /\ article_post' = None
    /\ fetch_call' = NoFetchCall
    /\ UNCHANGED <<envVars, asideVars, poolVars, sumVars, modVars, fetched>>

\* tasks.py:23-36 and 55-58: the clock is read; in active hours the review
\* channel is resolved, and the history read starts when it is there.
PollClock ==
    /\ poll_pc = "clock"
    /\ BagCardinality(fetched) < MaxArticles \/ world.poll_on
    /\ \E h \in Hours :
          /\ current_hour' = h
          /\ IF ActiveHour(h)
             THEN \E resolved \in BOOLEAN :
                     poll_pc' = IF resolved THEN "scan" ELSE "sleep30"
             ELSE poll_pc' = "night"
    /\ article_post' = None
    /\ fetch_call' = NoFetchCall
    /\ UNCHANGED <<envVars, asideVars, poolVars, sumVars, modVars, fetched>>

\* tasks.py:38: channel.history raises (the bot may not read the channel,
\* the request fails); nothing in the loop catches it and the task ends.
PollScanFails ==
    /\ poll_pc = "scan"
    /\ poll_pc' = "crashed"
    /\ UNCHANGED <<envVars, asideVars, poolVars, sumVars, modVars, current_hour,
                   article_post, fetch_call, fetched>>

\* The fetch with a merge of the pools between its snapshot and its first
\* commit.
PollFetchResetInside ==
    /\ poll_pc = "scan"
    /\ LET recent_urls == get_all_recent_bot_article_urls(review_channel)
       IN  \E call \in fetch_article(available_queries, used_queries,
                                     recent_urls, cfg) :
              /\ BagCardinality(fetched) < MaxArticles \/ call.result = None
              /\ fetch_call' = IF world.observe THEN call ELSE NoFetchCall
              /\ available_queries' =
                    IF call.before_available = <<>> THEN call.available
                    ELSE call.available \o call.before_used
              /\ used_queries' =
                    IF call.before_available = <<>> THEN call.used
                    ELSE SubSeq(call.used, Len(call.before_used) + 1,
                                Len(call.used))
              /\ article_post' = call.result
              /\ fetched' = IF call.result # None
                            THEN fetched (+) SetToBag({call.result})
                            ELSE fetched
              /\ poll_pc' = IF call.limited THEN "backoff"
                            ELSE IF call.result # None THEN "enqueue"
                            ELSE "sleep30"
    /\ UNCHANGED <<envVars, asideVars, sumVars, modVars, current_hour>>

\* The fetch followed by the review post at once, the append left out.
PollFetchSkipsQueue ==
    /\ poll_pc = "scan"
    /\ LET recent_urls == get_all_recent_bot_article_urls(review_channel)
       IN  \E call \in fetch_article(available_queries, used_queries,
                                     recent_urls, cfg) :
              /\ BagCardinality(fetched) < MaxArticles \/ call.result = None
              /\ fetch_call' = IF world.observe THEN call ELSE NoFetchCall
              /\ available_queries' = call.available
              /\ used_queries' = call.used
              /\ article_post' = call.result
              /\ fetched' = IF call.result # None
                            THEN fetched (+) SetToBag({call.result})
                            ELSE fetched
              /\ poll_pc' = IF call.limited THEN "backoff"
                            ELSE IF call.result # None THEN "send"
                            ELSE "sleep30"
    /\ UNCHANGED <<envVars, asideVars, sumVars, modVars, current_hour>>

\* tasks.py:38-40: the history read returns and fetch_article runs up to its
\* return or its rate-limit wait; nothing in between suspends.
PollFetch ==
    /\ poll_pc = "scan"
    /\ LET recent_urls == get_all_recent_bot_article_urls(review_channel)
       IN  \E call \in fetch_article(available_queries, used_queries,
                                     recent_urls, cfg) :
              /\ BagCardinality(fetched) < MaxArticles \/ call.result = None
              /\ fetch_call' = IF world.observe THEN call ELSE NoFetchCall
              /\ available_queries' = call.available
              /\ used_queries' = call.used
              /\ article_post' = call.result
              /\ fetched' = IF call.result # None
                            THEN fetched (+) SetToBag({call.result})
                            ELSE fetched
              /\ poll_pc' = IF call.limited THEN "backoff"
                            ELSE IF call.result # None THEN "enqueue"
                            ELSE "sleep30"
    /\ UNCHANGED <<envVars, asideVars, sumVars, modVars, current_hour>>

\* news.py:34-44 and 76-77: handle_api_limit is over, fetch_article returns
\* None and the iteration goes to its sleep.
PollBackoffDone ==
    /\ poll_pc = "backoff"
    /\ poll_pc' = "sleep30"
    /\ UNCHANGED <<envVars, asideVars, poolVars, sumVars, modVars, current_hour,
                   article_post, fetch_call, fetched>>

\* news.py:36-37: fetch_article got a 429 and handle_api_limit starts.
LimitStart ==
    /\ poll_pc = "backoff"
    /\ limit_pc = "idle"
    /\ limit_seconds' = 15 * 60
    /\ limit_log' = <<>>
    /\ limit_pc' = "wait"
    /\ UNCHANGED <<envVars, reset_hour, nightVars, main_pc, renderVars,
                   reset_log, windowVars, poolVars, sumVars, pollVars, modVars>>

\* The pass of the loop counting 30 seconds for a sleep of 60.
LimitChunkByHalf ==
    /\ limit_pc = "wait"
    /\ limit_seconds > 0
    /\ limit_seconds' = limit_seconds - 30
    /\ limit_log' = Append(limit_log,
                           [slept |-> Min(60, limit_seconds),
                            remaining |-> limit_seconds' \div 60])
    /\ limit_pc' = IF limit_seconds' > 0 THEN "wait" ELSE "over"
    /\ UNCHANGED <<envVars, reset_hour, nightVars, main_pc, renderVars,
                   reset_log, windowVars, poolVars, sumVars, pollVars, modVars>>

\* news.py:38-43: one pass of the while loop: the sleep, the subtraction and
\* the print of the minutes that remain.
LimitChunk ==
    /\ limit_pc = "wait"
    /\ limit_seconds > 0
    /\ limit_seconds' = limit_seconds - 60
    /\ limit_log' = Append(limit_log,
                           [slept |-> Min(60, limit_seconds),
                            remaining |-> limit_seconds' \div 60])
    /\ limit_pc' = IF limit_seconds' > 0 THEN "wait" ELSE "over"
    /\ UNCHANGED <<envVars, reset_hour, nightVars, main_pc, renderVars,
                   reset_log, windowVars, poolVars, sumVars, pollVars, modVars>>

\* news.py:44 and 77: handle_api_limit returns, fetch_article returns None
\* and the iteration goes to its sleep.
LimitReturn ==
    /\ poll_pc = "backoff"
    /\ limit_pc = "over"
    /\ limit_pc' = "idle"
    /\ poll_pc' = "sleep30"
    /\ UNCHANGED <<envVars, reset_hour, nightVars, main_pc, renderVars,
                   limit_seconds, limit_log, reset_log, windowVars, poolVars,
                   sumVars, modVars, current_hour, article_post, fetch_call,
                   fetched>>

\* The append without the lock.
PollEnqueueNoLock ==
    /\ poll_pc = "enqueue"
    /\ unactioned_articles' = Append(unactioned_articles, article_post)
    /\ poll_pc' = "send"
    /\ UNCHANGED <<envVars, asideVars, poolVars, sumVars, current_hour,
                   article_post, fetch_call, fetched, unactioned_articles_lock,
                   review_channel, public_channel, handlers>>

\* tasks.py:41-50: the append under the lock; the block holds no await, so
\* the lock is taken and released within the step.
PollEnqueue ==
    /\ poll_pc = "enqueue"
    /\ unactioned_articles_lock = 0
    /\ unactioned_articles' = Append(unactioned_articles, article_post)
    /\ poll_pc' = "send"
    /\ UNCHANGED <<envVars, asideVars, poolVars, sumVars, current_hour, article_post,
                   fetch_call, fetched, unactioned_articles_lock,
                   review_channel, public_channel, handlers>>

\* discord_bot.py:36-70 called at tasks.py:52: the review post is sent, or
\* the channel is not resolved and the function returns without a post, or
\* channel.send raises and the poll task ends with it.
PollSend ==
    /\ poll_pc = "send"
    /\ \E outcome \in {"sent", "no_channel", "raised"} :
          /\ review_channel' =
                IF outcome = "sent"
                THEN Append(Older(review_channel, 1), ReviewPost(article_post))
                ELSE review_channel
          /\ poll_pc' = IF outcome = "raised" THEN "crashed" ELSE "sleep30"
    /\ UNCHANGED <<envVars, asideVars, poolVars, sumVars, current_hour, article_post,
                   fetch_call, fetched, unactioned_articles,
                   unactioned_articles_lock, public_channel, handlers>>

\* tasks.py:36 and 80: the 30-minute sleep ends.
PollWake ==
    /\ poll_pc = "sleep30"
    /\ poll_pc' = "clock"
    /\ UNCHANGED <<envVars, asideVars, poolVars, sumVars, modVars, current_hour,
                   article_post, fetch_call, fetched>>

\* tasks.py:73-78: one chunk of the overnight sleep ends and the clock is
\* read again; the wait ends on an active hour or when the time is used up.
PollNight ==
    /\ poll_pc = "night"
    /\ \E h \in Hours, used_up \in BOOLEAN :
          poll_pc' = IF ActiveHour(h) \/ used_up THEN "clock" ELSE "night"
    /\ UNCHANGED <<envVars, asideVars, poolVars, sumVars, modVars, current_hour,
                   article_post, fetch_call, fetched>>

\* The hourly loop merging the pools at every wake.
ResetAtEveryWake ==
    /\ \E h \in Hours :
          reset_hour' = IF "reset" \in world.watch THEN h ELSE reset_hour
    /\ available_queries' = available_queries \o used_queries
    /\ used_queries' = <<>>
    /\ UNCHANGED <<envVars, nightVars, main_pc, renderVars, sumVars, pollVars,
                   modVars, lateVars>>

\* What reset_log holds after a reset that found the pools as `before` and
\* left them as `after`: the last two resets.
Logged(log, before, after) ==
    LET all == Append(log, [before |-> before, after |-> after])
    IN  IF Len(all) > 2 THEN Tail(all) ELSE all

Pools(avail, used) == [available |-> avail, used |-> used]

\* The reset with used_queries.clear() left out.
ResetKeepsUsed ==
    /\ \E h \in Hours :
          /\ reset_hour' = IF "reset" \in world.watch THEN h ELSE reset_hour
          /\ IF h = 9
             THEN /\ available_queries' = available_queries \o used_queries
                  /\ used_queries' = used_queries
                  /\ reset_log' =
                        IF "reset_log" \in world.watch
                        THEN Logged(reset_log,
                                    Pools(available_queries, used_queries),
                                    Pools(available_queries', used_queries'))
                        ELSE reset_log
             ELSE UNCHANGED <<poolVars, reset_log>>
    /\ UNCHANGED <<envVars, nightVars, main_pc, renderVars, sumVars, pollVars,
                   modVars, limitVars, windowVars>>

\* tasks.py:83-91: the hourly loop wakes and reads the clock.
reset_queries_every_morning ==
    /\ \E h \in Hours :
          /\ reset_hour' = IF "reset" \in world.watch THEN h ELSE reset_hour
          /\ IF h = 9
             THEN /\ available_queries' = available_queries \o used_queries
                  /\ used_queries' = <<>>
                  /\ reset_log' =
                        IF "reset_log" \in world.watch
                        THEN Logged(reset_log,
                                    Pools(available_queries, used_queries),
                                    Pools(available_queries', used_queries'))
                        ELSE reset_log
             ELSE UNCHANGED <<poolVars, reset_log>>
    /\ UNCHANGED <<envVars, nightVars, main_pc, renderVars, sumVars, pollVars,
                   modVars, limitVars, windowVars>>

-----------------------------------------------------------------------------
(* The moderation callbacks (discord_bot.py:105-165).  A handler is one     *)
(* run of accept or reject for the view of one review post.                 *)

Handler(kind, post) ==
    [kind |-> kind, post |-> post, pc |-> "defer", saw |-> "none",
     told |-> "none"]

\* self.article of the view the button belongs to.
ArticleOf(h) == review_channel[handlers[h].post].article

\* A moderator presses a button that is still on a review post.
Click ==
    /\ Len(handlers) < MaxClicks
    /\ \E kind \in {"accept", "reject"}, i \in 1..Len(review_channel) :
          /\ review_channel[i].controls
          /\ handlers' = Append(handlers, Handler(kind, i))
    /\ UNCHANGED <<envVars, asideVars, poolVars, sumVars, pollVars,
                   unactioned_articles, unactioned_articles_lock,
                   review_channel, public_channel>>

\* discord_bot.py:115 / 144: interaction.response.defer returns or raises.
HandlerDefer(h) ==
    /\ handlers[h].pc = "defer"
    /\ \E ok \in BOOLEAN :
          handlers' = [handlers EXCEPT ![h].pc = IF ok THEN "lock" ELSE "failed"]
    /\ UNCHANGED <<envVars, asideVars, poolVars, sumVars, pollVars,
                   unactioned_articles, unactioned_articles_lock,
                   review_channel, public_channel>>

\* The critical section with the removal left out.
HandlerCriticalKeeps(h) ==
    /\ handlers[h].pc = "lock"
    /\ unactioned_articles_lock = 0
    /\ IF ArticleOf(h) \in Range(unactioned_articles)
       THEN /\ handlers' = [handlers EXCEPT ![h].pc = "ack", ![h].saw = "present"]
            /\ UNCHANGED unactioned_articles_lock
       ELSE /\ unactioned_articles_lock' = h
            /\ handlers' = [handlers EXCEPT ![h].pc = "notice", ![h].saw = "absent"]
    /\ UNCHANGED <<envVars, asideVars, poolVars, sumVars, pollVars,
                   review_channel, public_channel, unactioned_articles>>

\* The critical section with the membership test left out: the handler goes
\* on as if it had found the article.
HandlerCriticalNoTest(h) ==
    /\ handlers[h].pc = "lock"
    /\ unactioned_articles_lock = 0
    /\ unactioned_articles' =
          IF ArticleOf(h) \in Range(unactioned_articles)
          THEN Remove(unactioned_articles, ArticleOf(h))
          ELSE unactioned_articles
    /\ handlers' = [handlers EXCEPT ![h].pc = "ack", ![h].saw = "present"]
    /\ UNCHANGED <<envVars, asideVars, poolVars, sumVars, pollVars, review_channel,
                   public_channel, unactioned_articles_lock>>

\* discord_bot.py:118-129 / 145-156: the lock is taken; an article found in
\* the queue is removed and the lock released with no await in between; one
\* not found leaves the handler awaiting followup.send with the lock held.
HandlerCritical(h) ==
    /\ handlers[h].pc = "lock"
    /\ unactioned_articles_lock = 0
    /\ IF ArticleOf(h) \in Range(unactioned_articles)
       THEN /\ unactioned_articles' = Remove(unactioned_articles, ArticleOf(h))
            /\ handlers' = [handlers EXCEPT ![h].pc = "ack", ![h].saw = "present"]
            /\ UNCHANGED unactioned_articles_lock
       ELSE /\ unactioned_articles_lock' = h
            /\ handlers' = [handlers EXCEPT ![h].pc = "notice", ![h].saw = "absent"]
            /\ UNCHANGED unactioned_articles
    /\ UNCHANGED <<envVars, asideVars, poolVars, sumVars, pollVars, review_channel,
                   public_channel>>

\* The notice ending with the lock still held.
HandlerNoticeKeepsLock(h) ==
    /\ handlers[h].pc = "notice"
    /\ \E ok \in BOOLEAN :
          handlers' = [handlers EXCEPT
                          ![h].pc = IF ok THEN "done" ELSE "failed",
                          ![h].told = IF ok THEN "already" ELSE @]
    /\ UNCHANGED <<envVars, asideVars, poolVars, sumVars, pollVars,
                   unactioned_articles, unactioned_articles_lock,
                   review_channel, public_channel>>

\* discord_bot.py:124-129 / 151-156: the "already moderated" notice is sent
\* or raises; leaving the async with block releases the lock either way.
HandlerNotice(h) ==
    /\ handlers[h].pc = "notice"
    /\ \E ok \in BOOLEAN :
          handlers' = [handlers EXCEPT
                          ![h].pc = IF ok THEN "done" ELSE "failed",
                          ![h].told = IF ok THEN "already" ELSE @]
    /\ unactioned_articles_lock' = 0
    /\ UNCHANGED <<envVars, asideVars, poolVars, sumVars, pollVars,
                   unactioned_articles, review_channel, public_channel>>

\* The acknowledgement going on to the publication, the edit left out.
HandlerAckSkipsEdit(h) ==
    /\ handlers[h].pc = "ack"
    /\ handlers' = [handlers EXCEPT
                       ![h].pc = IF handlers[h].kind = "accept"
                                 THEN "publish" ELSE "done",
                       ![h].told = handlers[h].kind]
    /\ UNCHANGED <<envVars, asideVars, poolVars, sumVars, pollVars,
                   unactioned_articles, unactioned_articles_lock,
                   review_channel, public_channel>>

\* discord_bot.py:131-134 / 158-161: the acknowledgement to the actor.
HandlerAck(h) ==
    /\ handlers[h].pc = "ack"
    /\ \E ok \in BOOLEAN :
          handlers' = [handlers EXCEPT
                          ![h].pc = IF ok THEN "edit" ELSE "failed",
                          ![h].told = IF ok THEN handlers[h].kind ELSE @]
    /\ UNCHANGED <<envVars, asideVars, poolVars, sumVars, pollVars,
                   unactioned_articles, unactioned_articles_lock,
                   review_channel, public_channel>>

\* The edit followed by the publication whichever button was pressed.
HandlerEditThenPublish(h) ==
    /\ handlers[h].pc = "edit"
    /\ review_channel' =
          [review_channel EXCEPT
              ![handlers[h].post].controls = FALSE,
              ![handlers[h].post].edited = handlers[h].kind]
    /\ handlers' = [handlers EXCEPT ![h].pc = "publish"]
    /\ UNCHANGED <<envVars, asideVars, poolVars, sumVars, pollVars,
                   unactioned_articles, unactioned_articles_lock,
                   public_channel>>

\* discord_bot.py:136-138 / 163-165: the review message loses its buttons
\* and gets its confirmation text, or the edit raises.
HandlerEdit(h) ==
    /\ handlers[h].pc = "edit"
    /\ \E ok \in BOOLEAN :
          IF ok
          THEN /\ review_channel' =
                     [review_channel EXCEPT
                         ![handlers[h].post].controls = FALSE,
                         ![handlers[h].post].edited = handlers[h].kind]
               /\ handlers' = [handlers EXCEPT ![h].pc =
                     IF handlers[h].kind = "accept" THEN "publish" ELSE "done"]
          ELSE /\ handlers' = [handlers EXCEPT ![h].pc = "failed"]
               /\ UNCHANGED review_channel
    /\ UNCHANGED <<envVars, asideVars, poolVars, sumVars, pollVars,
                   unactioned_articles, unactioned_articles_lock,
                   public_channel>>

\* discord_bot.py:73-102 called at line 140: the article goes to the public
\* channel, or the channel is not resolved, or channel.send raises.
HandlerPublish(h) ==
    /\ handlers[h].pc = "publish"
    /\ \E outcome \in {"sent", "no_channel", "raised"} :
          /\ public_channel' =
                IF outcome = "sent" THEN Append(public_channel, ArticleOf(h))
                ELSE public_channel
          /\ handlers' = [handlers EXCEPT ![h].pc =
                IF outcome = "raised" THEN "failed" ELSE "done"]
    /\ UNCHANGED <<envVars, asideVars, poolVars, sumVars, pollVars,
                   unactioned_articles, unactioned_articles_lock,
                   review_channel>>

-----------------------------------------------------------------------------
(* The specifications.                                                      *)

NoInput == [listing |-> "error", r1 |-> NotJson, r2 |-> NotJson, r3 |-> NotJson]
NoOutcome == Outcome(FALSE, None, <<>>, FALSE)

NoArticle == [title |-> "", source |-> "", summary |-> None, link |-> ""]
NoEmbed == [title |-> "", description |-> "", why |-> FALSE]

\* The hourly loop has not woken yet.
ResetAsleep == reset_hour = 0

\* The poll loop is not in an overnight wait that is followed by the minute.
NightOff == now = 0 /\ sleep_seconds = 0 /\ night_pc = "off"

\* main() has started the bot and on_ready has created the two tasks.
MainRunning == main_pc = "running"

\* No embed is being built.
RenderOff ==
    /\ render_pc = "idle"
    /\ render_in = NoArticle
    /\ embed = [review |-> NoEmbed, public |-> NoEmbed]

\* handle_api_limit is not running, no reset is on record, and the hour
\* tests of the poll loop are not followed one by one.
LimitOff == limit_pc = "idle" /\ limit_seconds = 0 /\ limit_log = <<>>

ResetLogEmpty == reset_log = <<>>

WindowOff ==
    /\ win_impl = "tasks"
    /\ win_hour = 0 /\ win_now = 0
    /\ win_fetch = FALSE
    /\ win_pc = "off"

LateOff == LimitOff /\ ResetLogEmpty /\ WindowOff

\* Lines of topics.txt the model follows in a file.
MaxLines == 2

\* A line of topics.txt: what line.strip() leaves of it, and whether it had
\* white space around that.
Line(padded, text) == [padded |-> padded, text |-> text]

Lines == {Line(FALSE, ""), Line(TRUE, ""), Line(TRUE, "AI")}

\* topics.txt: not there, or its lines.
NoFile == [exists |-> FALSE, lines |-> <<>>]

TopicSources ==
    {NoFile} \cup {[exists |-> TRUE, lines |-> l] : l \in SeqsUpTo(Lines, MaxLines)}

\* The load keeping the blank lines as terms.
LoadKeepsBlankLines(file) ==
    IF ~file.exists THEN <<>>
    ELSE [i \in 1..Len(file.lines) |-> file.lines[i].text]

\* news.py:17-28: the stripped lines that are not empty; no terms when the
\* file is not found.
load_topics_from_file(file) ==
    IF ~file.exists THEN <<>>
    ELSE LET kept == SelectSeq(file.lines, LAMBDA line : line.text # "")
         IN  [i \in 1..Len(kept) |-> kept[i].text]

\* The same run, with the topics source it started from on record.
From(w, file) == w @@ [source |-> file]

\* The state after the imports: topics loaded into available (news.py:27-31),
\* nothing queued, no task past its first line.
Imported(files, configs, w) ==
    /\ cfg \in configs
    /\ world = w
    /\ topics \in files
    /\ available_queries = topics
    /\ used_queries = <<>>
    /\ unactioned_articles = <<>>
    /\ unactioned_articles_lock = 0
    /\ poll_pc = "clock"
    /\ current_hour = 8
    /\ article_post = None
    /\ fetch_call = NoFetchCall
    /\ fetched = EmptyBag
    /\ review_channel = <<>>
    /\ public_channel = <<>>
    /\ handlers = <<>>
    /\ sum_pc = "idle"
    /\ sum_in = NoInput
    /\ sum_out = NoOutcome

\* The same with the bot running and the loops at their first line.
Loaded(files, configs, w) ==
    /\ Imported(files, configs, w)
    /\ ResetAsleep
    /\ LateOff
    /\ NightOff
    /\ MainRunning
    /\ RenderOff

\* The whole bot, from one topics file and a complete configuration, with a
\* completion service that rejects schema mode.
Init ==
    Loaded({<<"AI">>}, {FullConfig(FALSE)},
           World(FALSE, {HttpStatus(422)}, FALSE))

Next ==
    \/ PollClock
    \/ PollScanFails
    \/ PollFetch
    \/ PollBackoffDone
    \/ PollEnqueue
    \/ PollSend
    \/ PollWake
    \/ PollNight
    \/ reset_queries_every_morning
    \/ Chatter
    \/ Click
    \/ \E h \in 1..Len(handlers) :
          \/ HandlerDefer(h)
          \/ HandlerCritical(h)
          \/ HandlerNotice(h)
          \/ HandlerAck(h)
          \/ HandlerEdit(h)
          \/ HandlerPublish(h)

Spec == Init /\ [][Next]_vars

\* The whole bot with the event loop at work: the request of a handler that
\* holds the lock comes to an end, and a task that waits for the lock takes
\* it once it stays free.
SpecLive ==
    /\ Spec
    /\ WF_vars(PollEnqueue)
    /\ \A h \in 1..MaxClicks :
          /\ WF_vars(IF h <= Len(handlers) THEN HandlerCritical(h) ELSE FALSE)
          /\ WF_vars(IF h <= Len(handlers) THEN HandlerNotice(h) ELSE FALSE)

\* The poll loop and the reset loop alone, from every topics file and every
\* configuration of BotConfigs; no button is pressed.
PoolInit ==
    Loaded(TopicFiles, BotConfigs, World(TRUE, BotSchemaResponses, TRUE))

PoolNext ==
    \/ PollClock
    \/ PollScanFails
    \/ PollFetch
    \/ PollBackoffDone
    \/ PollEnqueue
    \/ PollSend
    \/ PollWake
    \/ PollNight
    \/ reset_queries_every_morning
    \/ Chatter

SpecPool == PoolInit /\ [][PoolNext]_vars

\* The same two loops from a two-term topics file and a complete
\* configuration, with the hour read by the reset loop on record.
ResetInit ==
    Loaded({<<"climate", "AI">>}, {FullConfig(FALSE)},
           Watch(World(TRUE, {HttpStatus(422)}, TRUE), {"reset"}))

SpecReset == ResetInit /\ [][PoolNext]_vars

\* The two loops again, the fetches bounded, with the pools before and
\* after each reset on record.
ResetLogInit ==
    Loaded({<<"climate", "AI">>}, {FullConfig(FALSE)},
           Watch(World(FALSE, {HttpStatus(422)}, FALSE), {"reset_log"}))

SpecResetLog == ResetLogInit /\ [][PoolNext]_vars

\* The poll loop and the reset loop with the rate-limit wait followed sleep
\* by sleep, from a one-term topics file.
LimitInit ==
    Loaded({<<"AI">>}, {FullConfig(FALSE)},
           World(FALSE, {HttpStatus(422)}, FALSE))

LimitNext ==
    \/ PollClock
    \/ PollScanFails
    \/ PollFetch
    \/ LimitStart
    \/ LimitChunk
    \/ LimitReturn
    \/ PollEnqueue
    \/ PollSend
    \/ PollWake
    \/ PollNight
    \/ reset_queries_every_morning

SpecLimit == LimitInit /\ [][LimitNext]_vars

\* The same with the event loop at work: a sleep of handle_api_limit that
\* is due ends, and the function returns once its loop is over.
SpecLimitLive ==
    SpecLimit /\ WF_vars(LimitStart) /\ WF_vars(LimitChunk)
              /\ WF_vars(LimitReturn)

\* The poll loop and the reset loop from every topics source: the file
\* missing, empty, blank, or with a term.
SourceInit ==
    \E file \in TopicSources :
        Loaded({load_topics_from_file(file)}, BotConfigs,
               From(World(TRUE, {HttpStatus(422)}, FALSE), file))

SpecSource == SourceInit /\ [][PoolNext]_vars

\* One call of summarize_with_lmstudio against every behaviour of the service.
SumCall ==
    /\ sum_pc = "idle"
    /\ \E listing \in ModelListings, r1 \in SchemaResponses,
          r2 \in ToolResponses, r3 \in PlainResponses :
          /\ sum_in' = [listing |-> listing, r1 |-> r1, r2 |-> r2, r3 |-> r3]
          /\ sum_out' = summarize_with_lmstudio(cfg, listing, r1, r2, r3)
    /\ sum_pc' = "returned"
    /\ UNCHANGED <<envVars, asideVars, poolVars, pollVars, modVars>>

SumInit ==
    Loaded({<<>>}, {c \in Configs : c.NEWS_API_KEY}, World(FALSE, {}, FALSE))

SumNext == SumCall

SpecSum == SumInit /\ [][SumNext]_vars

-----------------------------------------------------------------------------
(* The overnight wait of the poll loop (tasks.py:61-78), minute by minute.  *)
(* A clock reading is the minute of the day; asyncio.sleep(s) lets s        *)
(* seconds pass.                                                            *)

MinutesOfDay == 0..(24 * 60 - 1)

HourOf(m) == m \div 60

\* tasks.py:61: the readings at which the overnight wait is entered.
QuietMinutes == {m \in MinutesOfDay : HourOf(m) >= 22 \/ HourOf(m) < 9}

\* tasks.py:63-67: 09:00 of the day after `m`, minus `m`, in seconds.
SleepUntilMorning(m) == ((24 * 60 - m) + 9 * 60) * 60

\* tasks.py:61-72: the wait is entered and its length computed.
NightCompute ==
    /\ night_pc = "compute"
    /\ sleep_seconds' = SleepUntilMorning(now)
    /\ night_pc' = "sleep"
    /\ UNCHANGED <<envVars, lateVars, reset_hour, now, main_pc, renderVars, poolVars,
                   sumVars, pollVars, modVars>>

\* The pass of the while loop without the test of the clock: the loop is
\* left only when sleep_seconds is used up.
NightChunkNoRecheck ==
    /\ night_pc = "sleep"
    /\ sleep_seconds > 0
    /\ now' = (now + (Min(60, sleep_seconds) \div 60)) % (24 * 60)
    /\ sleep_seconds' = sleep_seconds - 60
    /\ night_pc' = IF sleep_seconds' <= 0 THEN "clock" ELSE "sleep"
    /\ UNCHANGED <<envVars, lateVars, reset_hour, main_pc, renderVars, poolVars,
                   sumVars, pollVars, modVars>>

\* tasks.py:73-78: one pass of the while loop: a sleep of at most 60 seconds,
\* the clock read again, the loop left on an active hour or when
\* sleep_seconds is used up.
NightChunk ==
    /\ night_pc = "sleep"
    /\ sleep_seconds > 0
    /\ now' = (now + (Min(60, sleep_seconds) \div 60)) % (24 * 60)
    /\ sleep_seconds' = sleep_seconds - 60
    /\ night_pc' = IF ActiveHour(HourOf(now')) \/ sleep_seconds' <= 0
                   THEN "clock" ELSE "sleep"
    /\ UNCHANGED <<envVars, lateVars, reset_hour, main_pc, renderVars, poolVars,
                   sumVars, pollVars, modVars>>

NightInit ==
    /\ Imported({<<>>}, {FullConfig(FALSE)}, World(FALSE, {}, FALSE))
    /\ ResetAsleep
    /\ LateOff
    /\ MainRunning
    /\ RenderOff
    /\ now \in QuietMinutes
    /\ sleep_seconds = 0
    /\ night_pc = "compute"

NightNext == NightCompute \/ NightChunk

SpecNight == NightInit /\ [][NightNext]_vars

-----------------------------------------------------------------------------
(* The hour tests of the poll loop, in tasks.py (21-80) and in the older    *)
(* backup.py (343-391), hour by hour.                                       *)

DayHours == 0..23

\* tasks.py:27 / backup.py:350: the test in front of the fetch branch.
FetchHours(impl, h) ==
    IF impl = "tasks" THEN 9 <= h /\ h < 22 ELSE 9 <= h /\ h < 23

\* tasks.py:61 / backup.py:376: the test in front of the overnight sleep.
NightHours(impl, h) ==
    IF impl = "tasks" THEN h >= 22 \/ h < 9 ELSE h >= 19 \/ h < 9

\* tasks.py:77 / backup.py:387: the test that ends the overnight sleep
\* early.
BreakHours(impl, h) ==
    IF impl = "tasks" THEN 9 <= h /\ h < 22 ELSE 9 <= h /\ h < 19

\* tasks.py:23-58 / backup.py:346-373: the clock is read; in the fetch
\* window the iteration scans and fetches, or sleeps 30 minutes and starts
\* again when the review channel is not resolved.  After an early break
\* of the overnight sleep the clock still shows the hour that ended it.
WindowClock ==
    /\ win_pc \in {"clock", "broke"}
    /\ \E h \in IF win_pc = "broke" THEN {win_now} ELSE DayHours,
          resolved \in BOOLEAN :
          /\ win_hour' = h
          /\ win_now' = h
          /\ win_fetch' = (FetchHours(win_impl, h) /\ resolved)
          /\ win_pc' = IF FetchHours(win_impl, h) /\ ~resolved THEN "retry"
                       ELSE "branch"
    /\ UNCHANGED <<envVars, reset_hour, nightVars, main_pc, renderVars,
                   limitVars, reset_log, win_impl, poolVars, sumVars,
                   pollVars, modVars>>

\* tasks.py:61 and 79-80 / backup.py:376 and 389-391: the choice between
\* the overnight sleep and the 30-minute sleep.
WindowSleep ==
    /\ win_pc = "branch"
    /\ win_pc' = IF NightHours(win_impl, win_hour) THEN "night" ELSE "sleep30"
    /\ UNCHANGED <<envVars, reset_hour, nightVars, main_pc, renderVars,
                   limitVars, reset_log, win_impl, win_hour, win_now,
                   win_fetch, poolVars, sumVars, pollVars, modVars>>

\* tasks.py:36 and 80 / backup.py:357 and 391: a 30-minute sleep ends.
WindowWake ==
    /\ win_pc \in {"sleep30", "retry"}
    /\ win_pc' = "clock"
    /\ UNCHANGED <<envVars, reset_hour, nightVars, main_pc, renderVars,
                   limitVars, reset_log, win_impl, win_hour, win_now,
                   win_fetch, poolVars, sumVars, pollVars, modVars>>

\* tasks.py:73-78 / backup.py:383-388: a chunk of the overnight sleep ends
\* and the clock is read again; the wait ends by the break or when the
\* time is used up.
WindowNight ==
    /\ win_pc = "night"
    /\ \E h \in DayHours, used_up \in BOOLEAN :
          /\ win_now' = h
          /\ win_pc' = IF BreakHours(win_impl, h) THEN "broke"
                       ELSE IF used_up THEN "clock" ELSE "night"
    /\ UNCHANGED <<envVars, reset_hour, nightVars, main_pc, renderVars,
                   limitVars, reset_log, win_impl, win_hour, win_fetch,
                   poolVars, sumVars, pollVars, modVars>>

WindowInit ==
    /\ Imported({<<>>}, {FullConfig(FALSE)}, World(FALSE, {}, FALSE))
    /\ reset_hour = 0
    /\ LimitOff
    /\ ResetLogEmpty
    /\ NightOff
    /\ MainRunning
    /\ RenderOff
    /\ win_impl \in {"tasks", "backup"}
    /\ win_hour = 0 /\ win_now = 0
    /\ win_fetch = FALSE
    /\ win_pc = "clock"

WindowNext == WindowClock \/ WindowSleep \/ WindowWake \/ WindowNight

SpecWindow == WindowInit /\ [][WindowNext]_vars

-----------------------------------------------------------------------------
(* Startup (main.py:21-36, config.py:29-61).                                *)

\* What the environment may hold when main() starts: each setting read at
\* config.py:12-26 is there or not.
StartConfigs ==
    [DISCORD_TOKEN : BOOLEAN, ADMIN_CHANNEL_ID : BOOLEAN,
     POST_CHANNEL_ID : BOOLEAN, NEWS_API_KEY : BOOLEAN,
     LMSTUDIO_BASE_URL : BOOLEAN, LMSTUDIO_MODEL : BOOLEAN,
     LM_USE_TOOLS : {FALSE}]

\* config.py:29-39: TRUE when ensure_token returns, FALSE when it exits.
ensure_token(c) == c.DISCORD_TOKEN

\* config.py:42-61: TRUE when ensure_required returns, FALSE when it exits.
\* No module of the program calls it.
ensure_required(c) ==
    /\ c.ADMIN_CHANNEL_ID
    /\ c.POST_CHANNEL_ID
    /\ c.LMSTUDIO_BASE_URL
    /\ c.LMSTUDIO_MODEL

\* main.py:22: the only check main() makes.
MainEnsureToken ==
    /\ main_pc = "start"
    /\ main_pc' = IF ensure_token(cfg) THEN "connect" ELSE "exited"
    /\ UNCHANGED <<envVars, lateVars, reset_hour, nightVars, renderVars, poolVars,
                   sumVars, pollVars, modVars>>

\* main.py:36: bot.run logs in and connects, or fails to.
MainRun ==
    /\ main_pc = "connect"
    /\ \E connected \in BOOLEAN :
          main_pc' = IF connected THEN "ready" ELSE "login_failed"
    /\ UNCHANGED <<envVars, lateVars, reset_hour, nightVars, renderVars, poolVars,
                   sumVars, pollVars, modVars>>

\* main.py:25-34: on_ready lists the models (lmstudio_models catches its
\* own failures) and the channels, and creates the two tasks.
on_ready ==
    /\ main_pc = "ready"
    /\ main_pc' = "running"
    /\ UNCHANGED <<envVars, lateVars, reset_hour, nightVars, renderVars, poolVars,
                   sumVars, pollVars, modVars>>

MainInit ==
    /\ Imported({<<>>}, StartConfigs, World(FALSE, {}, FALSE))
    /\ ResetAsleep
    /\ LateOff
    /\ NightOff
    /\ RenderOff
    /\ main_pc = "start"

MainNext == MainEnsureToken \/ MainRun \/ on_ready

SpecMain == MainInit /\ [][MainNext]_vars

-----------------------------------------------------------------------------
(* The embeds of the review post and of the public post                     *)
(* (discord_bot.py:44-67 and 81-100).  A text is the sequence of its        *)
(* characters.                                                              *)

\* discord_bot.py:58, 65, 91, 98: the slices title_text[:256] and
\* description[:4000].
TitleLimit == 256
DescriptionLimit == 4000

\* A text of n characters.
Chars(n) == [i \in 1..n |-> <<"a", "b", "c">>[(i % 3) + 1]]

\* The slice with no effect.
SliceKeepsAll(text, n) == text

\* text[:n]
Slice(text, n) == SubSeq(text, 1, Min(Len(text), n))

\* Python truth of a value that is None or a string.
Truthy(v) == IF v = None THEN FALSE ELSE v.text # <<>>

\* "\n".join(f"- {pt}" for pt in key_points)
RECURSIVE Bullets(_)
Bullets(key_points) ==
    IF key_points = <<>> THEN <<>>
    ELSE IF Len(key_points) = 1 THEN <<"-", " ">> \o Head(key_points)
    ELSE <<"-", " ">> \o Head(key_points) \o <<"\n">> \o Bullets(Tail(key_points))

\* discord_bot.py:44-67: the embed of the review post.
ReviewEmbed(article) ==
    LET summary == article.summary
        title_fallback == article.title
        title_text == IF summary.type = "dict" /\ Truthy(summary.title)
                      THEN summary.title.text ELSE title_fallback
    IN  IF summary.type = "dict"
        THEN [title |-> Slice(title_text, TitleLimit),
              description |-> Slice(Bullets(summary.key_points), DescriptionLimit),
              why |-> Truthy(summary.why_it_matters)]
        ELSE [title |-> Slice(title_text, TitleLimit),
              description |-> Slice(summary.text, DescriptionLimit),
              why |-> FALSE]

\* discord_bot.py:81-100: the embed of the public post.
PublicEmbed(article) ==
    LET summary == article.summary
        title_fallback == article.title
        title_text == IF summary.type = "dict" /\ Truthy(summary.title)
                      THEN summary.title.text ELSE title_fallback
    IN  IF summary.type = "dict"
        THEN [title |-> Slice(title_text, TitleLimit),
              description |-> Slice(Bullets(summary.key_points), DescriptionLimit),
              why |-> Truthy(summary.why_it_matters)]
        ELSE [title |-> Slice(title_text, TitleLimit),
              description |-> Slice(summary.text, DescriptionLimit),
              why |-> FALSE]

\* The lengths of the titles and of the raw summaries handed to the builders.
TitleLengths == {0, 1, 255, 256, 257, 300}
RawLengths == {0, 1, 3999, 4000, 4001}

\* The key_points lists: none, three short ones, three whose bullets pass
\* the description limit together.
KeyPointLists ==
    {<<>>, <<Chars(5), Chars(6), Chars(7)>>,
     <<Chars(1400), Chars(1400), Chars(1400)>>}

\* The summaries an article carries: the raw description, or the mapping the
\* summarizer returned (an accepted one has a non-empty title; the builders
\* also take one without).
RenderSummaries ==
    {Str(Chars(n)) : n \in RawLengths}
        \cup {Mapping(t, kp, why) :
                 t \in {None} \cup {Str(Chars(n)) : n \in {0, 256, 300}},
                 kp \in KeyPointLists,
                 why \in {None, Str(Chars(3))}}

RenderArticles ==
    {[title |-> Chars(n), source |-> "Pub", summary |-> sm, link |-> "L1"] :
        n \in TitleLengths, sm \in RenderSummaries}

\* Both embeds are built for one article.
Render ==
    /\ render_pc = "idle"
    /\ \E article \in RenderArticles :
          /\ render_in' = article
          /\ embed' = [review |-> ReviewEmbed(article),
                       public |-> PublicEmbed(article)]
    /\ render_pc' = "built"
    /\ UNCHANGED <<envVars, lateVars, reset_hour, nightVars, main_pc, poolVars, sumVars,
                   pollVars, modVars>>

RenderInit ==
    /\ Imported({<<>>}, {FullConfig(FALSE)}, World(FALSE, {}, FALSE))
    /\ ResetAsleep
    /\ LateOff
    /\ NightOff
    /\ MainRunning
    /\ RenderOff

RenderNext == Render

SpecRender == RenderInit /\ [][RenderNext]_vars

-----------------------------------------------------------------------------
(* Properties of the query pools and of fetch_article, under SpecPool.      *)

BagOf(q) == [x \in Range(q) |-> Cardinality({i \in 1..Len(q) : q[i] = x})]

NoRepeat(q) == \A i, j \in 1..Len(q) : q[i] = q[j] => i = j

\* The log entry of a request answered with a result that is not excluded.
FreshAt(i) ==
    /\ fetch_call.log[i].response.kind = "article"
    /\ fetch_call.log[i].response.url \notin fetch_call.recent_urls

\* The log entry of a request answered with a top result, well-formed or
\* not, whose link is not excluded: the request that reaches the commit.
CommitAt(i) ==
    /\ fetch_call.log[i].response.kind \in {"article", "bad_source"}
    /\ fetch_call.log[i].response.url \notin fetch_call.recent_urls

\* The terms of the requests that reached the commit, in order.
FreshTerms ==
    LET fresh == SelectSeq([i \in 1..Len(fetch_call.log) |->
                              [query |-> fetch_call.log[i].query,
                               fresh |-> CommitAt(i)]],
                           LAMBDA e : e.fresh)
    IN  [i \in 1..Len(fresh) |-> fresh[i].query]

\* used_queries as the call had it once the refill was over.
UsedAtStart ==
    IF fetch_call.before_available = <<>> THEN <<>> ELSE fetch_call.before_used

\* C1: in every state reached by fetches (refills, commits) and hourly
\* resets in any order, available_queries and used_queries together hold
\* exactly the loaded terms, each as often as it was loaded: nothing is
\* duplicated or dropped, and a term loaded once is in one pool only.
C1_PoolConservation ==
    /\ BagOf(available_queries) (+) BagOf(used_queries) = BagOf(topics)
    /\ \A t \in Range(topics) :
          Cardinality({i \in 1..Len(topics) : topics[i] = t}) = 1
             => ~(t \in Range(available_queries) /\ t \in Range(used_queries))

C1_Witness ==
    /\ fetch_call.called
    /\ fetch_call.result # None
    /\ Len(topics) = 2
    /\ NoRepeat(topics)
    /\ Len(available_queries) = 1
    /\ Len(used_queries) = 1

\* C3: fetch_article never returns an article whose link is in the excluded
\* set, and returns None when every request was answered with an excluded
\* link.
C3_Dedup ==
    fetch_call.called =>
        /\ fetch_call.result # None
              => fetch_call.result.link \notin fetch_call.recent_urls
        /\ (\A i \in 1..Len(fetch_call.log) :
                /\ fetch_call.log[i].response.kind = "article"
                /\ fetch_call.log[i].response.url \in fetch_call.recent_urls)
              => fetch_call.result = None

C3_Witness ==
    /\ fetch_call.called
    /\ Len(fetch_call.log) = 2
    /\ fetch_call.log[1].response.kind = "article"
    /\ fetch_call.log[1].response.url \in fetch_call.recent_urls
    /\ fetch_call.result # None

\* C5 (as claimed): no failure of a step of a poll iteration ends the poll
\* loop.
C5_LoopSurvives == poll_pc # "crashed"

\* C8: a call that finds available empty takes every term of used as its
\* candidates and clears used before the first request, so that used then
\* holds the terms committed by this call only; a call that finds available
\* non-empty takes available as its candidates and keeps used.
C8_PoolRotation ==
    (fetch_call.called /\ cfg.NEWS_API_KEY) =>
        /\ BagOf(fetch_call.order) =
              BagOf(IF fetch_call.before_available = <<>>
                    THEN fetch_call.before_used
                    ELSE fetch_call.before_available)
        /\ fetch_call.used = UsedAtStart \o FreshTerms
        /\ \A i \in 1..Len(fetch_call.log) :
              fetch_call.log[i].query = fetch_call.order[i]

\* Available = [A, B]: two calls committed a term each, a third one found
\* available empty and had both terms as candidates again.
C8_Witness ==
    /\ fetch_call.called
    /\ cfg = FullConfig(FALSE)
    /\ NoRepeat(topics)
    /\ BagCardinality(fetched) = 2
    /\ fetch_call.before_available = <<>>
    /\ Len(fetch_call.before_used) = 2
    /\ Range(fetch_call.order) = Terms
    /\ Len(fetch_call.log) = 2

\* C9 (as claimed): the first request answered with a fresh result makes the
\* call return the article of that result, with its term moved from
\* available to the end of used and no other term moved.
C9_SuccessfulFetch ==
    fetch_call.called =>
        \A i \in 1..Len(fetch_call.log) :
            (FreshAt(i) /\ \A j \in 1..(i - 1) : ~FreshAt(j)) =>
                /\ fetch_call.result # None
                /\ fetch_call.result.link = fetch_call.log[i].response.url
                /\ fetch_call.result.source =
                      SearchArticle(fetch_call.log[i].response.url).source
                /\ BagOf(fetch_call.available) (+)
                      BagOf(<<fetch_call.log[i].query>>) = BagOf(fetch_call.order)
                /\ fetch_call.used =
                      Append(UsedAtStart, fetch_call.log[i].query)

\* C10 (as claimed): a request answered with 429 is the last request of the
\* call; the call waits, returns None and has committed no term.
C10_RateLimit ==
    fetch_call.called =>
        \A i \in 1..Len(fetch_call.log) :
            fetch_call.log[i].response.kind = "429" =>
                /\ i = Len(fetch_call.log)
                /\ fetch_call.limited
                /\ fetch_call.result = None
                /\ article_post = None
                /\ poll_pc \in {"backoff", "sleep30", "clock"}
                /\ fetch_call.available = fetch_call.order
                /\ fetch_call.used = UsedAtStart

Moved ==
    IF fetch_call.order = <<>> THEN 0
    ELSE Len(fetch_call.order) - Len(fetch_call.available)

\* C18 (as claimed): a call moves at most one term, and moves one exactly
\* when it returns an article, the one obtained with that term; a call that
\* returns None leaves both pools as the refill left them.
C18_CommitOncePerFetch ==
    fetch_call.called =>
        /\ Moved <= 1
        /\ Moved = 1 <=> fetch_call.result # None
        /\ fetch_call.result # None =>
              LET last == fetch_call.log[Len(fetch_call.log)]
              IN  /\ fetch_call.result.link = last.response.url
                  /\ fetch_call.used = Append(UsedAtStart, last.query)
                  /\ BagOf(fetch_call.available) (+) BagOf(<<last.query>>)
                        = BagOf(fetch_call.order)
        /\ fetch_call.result = None =>
              \/ /\ fetch_call.used = UsedAtStart
                 /\ BagOf(fetch_call.available) = BagOf(fetch_call.order)
                 /\ fetch_call.order # <<>>
              \/ /\ fetch_call.used = fetch_call.before_used
                 /\ fetch_call.available = fetch_call.before_available

\* The terms of the requests of the call, in order.
Queried == [i \in 1..Len(fetch_call.log) |-> fetch_call.log[i].query]

\* How often term t stands in list q.
Count(q, t) == Cardinality({i \in 1..Len(q) : q[i] = t})

\* C23: the requests of a call go through the candidates in their order,
\* one request per candidate; a request that fails otherwise than by 429
\* or that brings no result is followed by the request for the next
\* candidate when there is one; and a call that returns None without a
\* rate-limit wait has queried every candidate.
C23_SkipOneTerm ==
    fetch_call.called =>
        /\ Len(fetch_call.log) <= Len(fetch_call.order)
        /\ Queried = SubSeq(fetch_call.order, 1, Len(fetch_call.log))
        /\ NoRepeat(fetch_call.order) => NoRepeat(Queried)
        /\ \A i \in 1..Len(fetch_call.log) :
              (/\ fetch_call.log[i].response.kind \in {"error", "empty"}
               /\ i < Len(fetch_call.order))
                 => Len(fetch_call.log) > i
        /\ (fetch_call.result = None /\ ~fetch_call.limited)
              => Len(fetch_call.log) = Len(fetch_call.order)

\* Two candidates: the request for the first failed, the one for the
\* second brought no result, and the call returned None.
C23_Witness ==
    /\ fetch_call.called
    /\ Len(fetch_call.order) = 2
    /\ NoRepeat(fetch_call.order)
    /\ Len(fetch_call.log) = 2
    /\ fetch_call.log[1].response.kind = "error"
    /\ fetch_call.log[2].response.kind = "empty"
    /\ fetch_call.result = None
    /\ ~fetch_call.limited

\* C30: every request of a call is for a term that is in available when
\* the request is sent, and, the terms being loaded once each, for no term
\* of used; used changes only by a reset that empties it into available or
\* by a call, which leaves in it the terms it committed after those it
\* kept (none when it refilled), so that used holds the commits since the
\* last refill or reset, no term more often than it was loaded.
C30_Rotation ==
    /\ [](fetch_call.called =>
            \A i \in 1..Len(fetch_call.log) :
                /\ fetch_call.log[i].query
                      \in Range(fetch_call.log[i].available)
                /\ NoRepeat(topics) =>
                      fetch_call.log[i].query
                         \notin Range(fetch_call.log[i].used))
    /\ [](\A t \in Range(topics) :
            Count(used_queries, t) <= Count(topics, t))
    /\ [][used_queries' # used_queries =>
            \/ /\ UNCHANGED pollVars
               /\ used_queries' = <<>>
               /\ available_queries' = available_queries \o used_queries
            \/ /\ fetch_call'.called
               /\ used_queries' =
                     (IF available_queries = <<>> THEN <<>> ELSE used_queries)
                        \o FreshTerms']_vars

\* Two terms loaded once each: a call that found one of them in used sent
\* its only request for the other one and committed it.
C30_Witness ==
    /\ fetch_call.called
    /\ NoRepeat(topics)
    /\ Len(topics) = 2
    /\ Len(fetch_call.before_used) = 1
    /\ Len(fetch_call.before_available) = 1
    /\ Len(fetch_call.log) = 1
    /\ fetch_call.log[1].query \notin Range(fetch_call.before_used)
    /\ fetch_call.result # None
    /\ used_queries = Append(fetch_call.before_used, fetch_call.log[1].query)

-----------------------------------------------------------------------------
(* Properties of the hourly reset, under SpecReset.                         *)

\* C17: a wake of the reset loop at hour 9 moves every term of used to
\* the end of available and clears used, wherever the poll loop stands; a
\* wake at another hour leaves both pools as they are.  (In SpecReset the
\* steps that leave the poll loop and the channels alone are the wakes of
\* the reset loop.)
C17_DailyReset ==
    [][UNCHANGED <<pollVars, modVars>> =>
          IF reset_hour' = 9
          THEN /\ available_queries' = available_queries \o used_queries
               /\ used_queries' = <<>>
          ELSE UNCHANGED poolVars]_vars

\* The reset loop woke at 9 while fetch_article was in its rate-limit wait:
\* the term the poll loop had committed is back in available.
C17_Witness ==
    /\ reset_hour = 9
    /\ poll_pc = "backoff"
    /\ fetch_call.called
    /\ fetch_call.used # <<>>
    /\ used_queries = <<>>
    /\ Len(available_queries) = 2

\* C29: with the reset loop waking at any suspension point of the poll
\* loop, a call of fetch_article starts from the pools as they stand and
\* leaves them as its own refill and commits made them, with no wake of
\* the reset loop in the same step; every request that reaches the commit
\* finds its term in available; and the two pools together always hold
\* the loaded terms.
C29_NoResetInsideFetch ==
    /\ [][(fetch_call'.called /\ fetch_call' # fetch_call) =>
            /\ fetch_call'.before_available = available_queries
            /\ fetch_call'.before_used = used_queries
            /\ available_queries' = fetch_call'.available
            /\ used_queries' = fetch_call'.used
            /\ reset_hour' = reset_hour]_vars
    /\ [](fetch_call.called =>
            \A i \in 1..Len(fetch_call.log) :
                CommitAt(i) =>
                    fetch_call.log[i].query
                       \in Range(fetch_call.log[i].available))
    /\ [](BagOf(available_queries) (+) BagOf(used_queries) = BagOf(topics))

\* A reset ran between two fetches: the second call, after one article
\* already fetched, found both terms in available and committed one.
C29_Witness ==
    /\ reset_hour = 9
    /\ fetch_call.called
    /\ BagCardinality(fetched) = 2
    /\ fetch_call.before_used = <<>>
    /\ Len(fetch_call.before_available) = 2
    /\ fetch_call.result # None
    /\ Len(used_queries) = 1

\* C27: an iteration that reads an active hour and does not resolve the
\* review channel goes from the clock check to the 30-minute sleep with no
\* scan and no fetch, the pools, the queue and the review channel as they
\* were; the sleep is followed by the clock check; and the clock check
\* never ends the loop.
C27_UnresolvedChannel ==
    /\ [][(poll_pc = "clock" /\ poll_pc' = "sleep30") =>
            /\ 9 <= current_hour' /\ current_hour' < 22
            /\ UNCHANGED <<available_queries, used_queries,
                           unactioned_articles, review_channel, fetched>>
            /\ ~fetch_call'.called
            /\ article_post' = None]_vars
    /\ [][(poll_pc = "clock" /\ poll_pc' # "clock") =>
            poll_pc' \in {"scan", "sleep30", "night"}]_vars
    /\ [][(poll_pc = "sleep30" /\ poll_pc' # "sleep30") =>
            poll_pc' = "clock"]_vars

\* After an iteration that committed a term, an iteration read at hour 9
\* did not resolve the channel and sleeps without having fetched.
C27_Witness ==
    /\ poll_pc = "sleep30"
    /\ current_hour = 9
    /\ ~fetch_call.called
    /\ Len(used_queries) = 1
    /\ Len(available_queries) = 1

-----------------------------------------------------------------------------
(* Properties of the reset applied again, under SpecResetLog.               *)

\* C33: a reset that finds used empty leaves available as it is, same
\* terms in the same order, and used empty; and a reset that finds the
\* pools as the reset before it left them leaves them so again.
C33_ResetIdempotent ==
    \A i \in 1..Len(reset_log) :
        /\ reset_log[i].before.used = <<>>
              => reset_log[i].after = reset_log[i].before
        /\ (i > 1 /\ reset_log[i].before = reset_log[i - 1].after)
              => reset_log[i].after = reset_log[i - 1].after

\* Two resets in a row, the first of which found a term in used.
C33_Witness ==
    /\ Len(reset_log) = 2
    /\ reset_log[1].before.used # <<>>
    /\ reset_log[2].before = reset_log[1].after
    /\ Len(reset_log[2].after.available) = 2

-----------------------------------------------------------------------------
(* Properties of the runs without terms, under SpecSource.                  *)

\* The topics source is absent or holds blank lines only.
NoTerms ==
    \/ ~world.source.exists
    \/ \A i \in 1..Len(world.source.lines) : world.source.lines[i].text = ""

\* C34: when the topics source is absent or holds blank lines only, both
\* pools are empty at all times; every call of fetch_article sends no
\* search request and returns None, with no rate-limit wait, and the
\* iteration goes on to its 30-minute sleep and from there to the next
\* clock check; nothing is queued or posted.
C34_EmptyPool ==
    /\ [](NoTerms =>
            /\ topics = <<>>
            /\ available_queries = <<>> /\ used_queries = <<>>
            /\ unactioned_articles = <<>> /\ review_channel = <<>>
            /\ fetch_call.called =>
                  /\ fetch_call.log = <<>>
                  /\ fetch_call.result = None
                  /\ ~fetch_call.limited
                  /\ poll_pc \in {"sleep30", "clock"})
    /\ [][(NoTerms /\ poll_pc = "scan" /\ poll_pc' # "scan") =>
            \/ poll_pc' = "sleep30" /\ fetch_call'.called
            \/ poll_pc' = "crashed" /\ ~fetch_call'.called]_vars
    /\ [][(NoTerms /\ poll_pc = "sleep30" /\ poll_pc' # "sleep30") =>
            poll_pc' = "clock"]_vars

\* A file of two blank lines, the search key set: fetch_article was called
\* and the iteration sleeps.
C34_Witness ==
    /\ world.source.exists
    /\ Len(world.source.lines) = 2
    /\ NoTerms
    /\ cfg.NEWS_API_KEY
    /\ fetch_call.called
    /\ fetch_call.order = <<>>
    /\ poll_pc = "sleep30"

\* The file is missing: fetch_article was called and the iteration sleeps.
C34_WitnessNoFile ==
    /\ ~world.source.exists
    /\ cfg.NEWS_API_KEY
    /\ fetch_call.called
    /\ poll_pc = "sleep30"

-----------------------------------------------------------------------------
(* Properties of the moderation queue and its handlers, under Spec.         *)

Copies(a, q) == Cardinality({i \in 1..Len(q) : q[i] = a})

\* The handlers for article a that have been through the critical section.
Decided(a) ==
    {h \in 1..Len(handlers) : ArticleOf(h) = a /\ handlers[h].saw # "none"}

\* C2: for an article that was queued once, of all the accept and reject
\* actions on it, in any interleaving, exactly one finds it in the queue
\* and removes it; every other one finds it absent, is told "already
\* moderated" at most, and has no effect; the article is published once
\* if the one that removed it is an accept, and not at all otherwise.
C2_AtMostOnceModeration ==
    \A a \in BagToSet(fetched) :
        CopiesIn(a, fetched) = 1 =>
            LET removers == {h \in Decided(a) : handlers[h].saw = "present"}
            IN  /\ Decided(a) # {} => Cardinality(removers) = 1
                /\ removers # {} => Copies(a, unactioned_articles) = 0
                /\ \A h \in Decided(a) \ removers :
                      /\ handlers[h].saw = "absent"
                      /\ handlers[h].pc \in {"notice", "done", "failed"}
                      /\ handlers[h].told \in {"none", "already"}
                      /\ handlers[h].pc = "done" => handlers[h].told = "already"
                /\ Copies(a, public_channel) <= 1
                /\ Copies(a, public_channel) = 1 =>
                      \E h \in removers : handlers[h].kind = "accept"

\* An accept and a reject on the same review post have both finished: one
\* removed the article, the other was told it was already moderated.
C2_Witness ==
    \E h1, h2 \in 1..Len(handlers) :
        /\ handlers[h1].post = handlers[h2].post
        /\ CopiesIn(ArticleOf(h1), fetched) = 1
        /\ handlers[h1].kind = "accept" /\ handlers[h2].kind = "reject"
        /\ handlers[h1].pc = "done" /\ handlers[h2].pc = "done"
        /\ {handlers[h1].saw, handlers[h2].saw} = {"present", "absent"}
        /\ "already" \in {handlers[h1].told, handlers[h2].told}

\* C4 (as claimed): no article is in the moderation queue twice.
C4_QueueUnique == NoRepeat(unactioned_articles)

\* C4 (amended): an article is appended to the queue only when no review
\* post among the HistoryLimit most recent messages carries its link.
C4_AppendOutsideWindow ==
    [][Len(unactioned_articles') > Len(unactioned_articles) =>
          LET a == unactioned_articles'[Len(unactioned_articles')]
          IN  \A i \in 1..Len(review_channel) :
                 review_channel[i].article.link = a.link
                    => review_channel[i].newer >= HistoryLimit]_vars

\* The queue holds an article twice; the review post of the first copy has
\* left the history window.
C4_Witness ==
    /\ Len(unactioned_articles) = 2
    /\ unactioned_articles[1] = unactioned_articles[2]
    /\ \E i \in 1..Len(review_channel) :
          /\ review_channel[i].article = unactioned_articles[1]
          /\ review_channel[i].newer = HistoryLimit

\* The accept handlers for article a that found it, removed it and came to
\* the end of post_to_public_channel.
Publishers(a) ==
    {h \in 1..Len(handlers) :
        /\ ArticleOf(h) = a
        /\ handlers[h].kind = "accept"
        /\ handlers[h].saw = "present"
        /\ handlers[h].pc = "done"}

\* C15 (as claimed): a reject action, like an action that finds the article
\* absent, never edits the review message.
C15_RejectNeverEdits ==
    \A i \in 1..Len(review_channel) : review_channel[i].edited # "reject"

\* C15 (amended): an article is in the public channel only by an accept
\* that found it in the queue and removed it; a reject never publishes; an
\* action that found the article absent neither publishes nor edits the
\* review message; a review message is edited only by an action that
\* removed the article, an accept or a reject.
C15_PublicationOnlyOnAccept ==
    /\ \A i \in 1..Len(public_channel) :
          Copies(public_channel[i], public_channel)
             <= Cardinality(Publishers(public_channel[i]))
    /\ \A h \in 1..Len(handlers) :
          /\ handlers[h].kind = "reject" => handlers[h].pc # "publish"
          /\ handlers[h].saw = "absent" =>
                handlers[h].pc \in {"notice", "done", "failed"}
          /\ handlers[h].pc = "publish" =>
                handlers[h].kind = "accept" /\ handlers[h].saw = "present"
    /\ \A i \in 1..Len(review_channel) :
          review_channel[i].edited # "no" =>
             \E h \in 1..Len(handlers) :
                /\ handlers[h].post = i
                /\ handlers[h].kind = review_channel[i].edited
                /\ handlers[h].saw = "present"
                /\ handlers[h].pc \in {"publish", "done", "failed"}

\* A reject removed the article and edited the review message; an accept on
\* the same post was told "already moderated"; nothing was published.
C15_Witness ==
    \E h1, h2 \in 1..Len(handlers) :
        /\ handlers[h1].post = handlers[h2].post
        /\ handlers[h1].kind = "reject" /\ handlers[h1].saw = "present"
        /\ handlers[h1].pc = "done"
        /\ handlers[h2].kind = "accept" /\ handlers[h2].saw = "absent"
        /\ handlers[h2].pc = "done" /\ handlers[h2].told = "already"
        /\ review_channel[handlers[h1].post].edited = "reject"
        /\ public_channel = <<>>

\* C16: the queue is appended to, tested and removed from only by a task
\* that takes the lock for it, so never while another task holds the lock;
\* a moderation action tests and removes in one critical section, with no
\* other access to the queue in between; the lock is held across a
\* suspension only by the action that is sending its "already moderated"
\* notice.
C16_LockDiscipline ==
    /\ [](unactioned_articles_lock # 0 =>
            /\ unactioned_articles_lock \in 1..Len(handlers)
            /\ handlers[unactioned_articles_lock].pc = "notice")
    /\ [][/\ unactioned_articles' # unactioned_articles
              => unactioned_articles_lock = 0
          /\ \A h \in 1..Len(handlers) :
                (handlers[h].saw = "none" /\ handlers'[h].saw # "none") =>
                   /\ unactioned_articles_lock = 0
                   /\ unactioned_articles_lock' \in {0, h}
                   /\ IF ArticleOf(h) \in Range(unactioned_articles)
                      THEN /\ handlers'[h].saw = "present"
                           /\ Copies(ArticleOf(h), unactioned_articles') =
                                 Copies(ArticleOf(h), unactioned_articles) - 1
                      ELSE /\ handlers'[h].saw = "absent"
                           /\ unactioned_articles' = unactioned_articles]_vars

\* An action holds the lock while it sends its notice; the poll loop has an
\* article to append and waits for the lock.
C16_Witness ==
    /\ unactioned_articles_lock # 0
    /\ poll_pc = "enqueue"
    /\ \E h \in 1..Len(handlers) : handlers[h].saw = "present"

\* The handlers that found article a in the queue.
Removers(a) ==
    {h \in 1..Len(handlers) : ArticleOf(h) = a /\ handlers[h].saw = "present"}

\* The number of times article a has been appended to the queue.
Appended(a) ==
    CopiesIn(a, fetched) - IF poll_pc = "enqueue" /\ article_post = a THEN 1 ELSE 0

\* C19 (as claimed): an article that an accept or a reject removed is never
\* in the queue again.
C19_NeverBackInQueue ==
    \A h \in 1..Len(handlers) :
        handlers[h].saw = "present"
           => ArticleOf(h) \notin Range(unactioned_articles)

\* C19 (amended): every entry of the queue is removed at most once, by an
\* accept or a reject that found it there: each appended copy of an article
\* is either still in the queue or was removed by one action of its own,
\* and the queue shrinks only in the step in which an action finds its
\* article present.
C19_EntryLifecycle ==
    /\ [](\A a \in BagToSet(fetched) :
             Copies(a, unactioned_articles) + Cardinality(Removers(a))
                = Appended(a))
    /\ [][Len(unactioned_articles') < Len(unactioned_articles) =>
            \E h \in 1..Len(handlers) :
               /\ handlers[h].pc = "lock"
               /\ handlers'[h].saw = "present"
               /\ ArticleOf(h) \in Range(unactioned_articles)
               /\ Len(unactioned_articles') = Len(unactioned_articles) - 1
               /\ Copies(ArticleOf(h), unactioned_articles')
                     = Copies(ArticleOf(h), unactioned_articles) - 1]_vars

\* An article was accepted, fetched again after its review post had left
\* the history window, and its second entry rejected.
C19_Witness ==
    \E h1, h2 \in 1..Len(handlers) :
        /\ handlers[h1].post # handlers[h2].post
        /\ ArticleOf(h1) = ArticleOf(h2)
        /\ handlers[h1].kind = "accept" /\ handlers[h1].saw = "present"
        /\ handlers[h2].kind = "reject" /\ handlers[h2].saw = "present"
        /\ handlers[h1].pc = "done" /\ handlers[h2].pc = "done"
        /\ review_channel[handlers[h1].post].newer = HistoryLimit

\* C20 (as claimed): no accepted article is lost.  An accept that removed
\* its article and has ended, whether it came to its last line or an await
\* raised, has sent the article to the public channel (a handler that has
\* ended takes no further step, so what it has not published it never
\* will).
C20_AcceptedPublished ==
    \A h \in 1..Len(handlers) :
        (/\ handlers[h].kind = "accept"
         /\ handlers[h].saw = "present"
         /\ handlers[h].pc \in {"done", "failed"})
            => ArticleOf(h) \in Range(public_channel)

\* The order in which a handler goes through its lines.
HandlerOrder ==
    {<<"defer", "lock">>, <<"defer", "failed">>, <<"lock", "ack">>,
     <<"lock", "notice">>, <<"notice", "done">>, <<"notice", "failed">>,
     <<"ack", "edit">>, <<"ack", "failed">>, <<"edit", "publish">>,
     <<"edit", "done">>, <<"edit", "failed">>, <<"publish", "done">>,
     <<"publish", "failed">>}

\* C21: an accept that found its article goes through removal under the
\* lock, release of the lock, acknowledgement, edit of the review message,
\* publication, in this order: it does not hold the lock at any of the last
\* three, it has acknowledged before it edits, the review message has lost
\* its controls before it publishes, and the public channel grows only at
\* its last step.
C21_AcceptStepOrder ==
    /\ [](\A h \in 1..Len(handlers) :
             (handlers[h].kind = "accept" /\ handlers[h].saw = "present") =>
                /\ unactioned_articles_lock # h
                /\ handlers[h].pc \in {"ack", "edit", "publish", "done", "failed"}
                /\ handlers[h].pc = "ack" => handlers[h].told = "none"
                /\ handlers[h].pc \in {"edit", "publish", "done"}
                      => handlers[h].told = "accept"
                /\ handlers[h].pc \in {"publish", "done"} =>
                      /\ ~review_channel[handlers[h].post].controls
                      /\ review_channel[handlers[h].post].edited # "no")
    /\ [][/\ \A h \in 1..Len(handlers) :
                handlers'[h].pc # handlers[h].pc
                   => <<handlers[h].pc, handlers'[h].pc>> \in HandlerOrder
          /\ public_channel' # public_channel =>
                \E h \in 1..Len(handlers) :
                   /\ handlers[h].kind = "accept"
                   /\ handlers[h].saw = "present"
                   /\ handlers[h].pc = "publish"
                   /\ handlers'[h].pc = "done"
                   /\ public_channel' = Append(public_channel, ArticleOf(h))]_vars

\* An accept has come to its end: acknowledged, review message edited,
\* article in the public channel, lock free.
C21_Witness ==
    \E h \in 1..Len(handlers) :
        /\ handlers[h].kind = "accept"
        /\ handlers[h].saw = "present"
        /\ handlers[h].pc = "done"
        /\ handlers[h].told = "accept"
        /\ review_channel[handlers[h].post].edited = "accept"
        /\ ArticleOf(h) \in Range(public_channel)
        /\ unactioned_articles_lock = 0

\* C25: the queue grows only by the append step of an iteration whose
\* fetch returned an article, by that article at the tail, with the lock
\* free to take; the review post is emitted only by the step after the
\* append, for the same article; each iteration has one append step at
\* most; and an iteration whose fetch returned None reaches neither step.
C25_EnqueueBeforePost ==
    /\ [][Len(unactioned_articles') > Len(unactioned_articles) =>
            /\ poll_pc = "enqueue" /\ poll_pc' = "send"
            /\ article_post # None
            /\ unactioned_articles_lock = 0
            /\ unactioned_articles'
                  = Append(unactioned_articles, article_post)]_vars
    /\ [][Len(review_channel') > Len(review_channel) =>
            /\ poll_pc = "send"
            /\ Len(review_channel') = Len(review_channel) + 1
            /\ review_channel'[Len(review_channel')].article = article_post]_vars
    /\ [][(poll_pc' = "send" /\ poll_pc # "send") =>
            /\ poll_pc = "enqueue"
            /\ Len(unactioned_articles') = Len(unactioned_articles) + 1]_vars
    /\ [][(poll_pc' = "enqueue" /\ poll_pc # "enqueue") =>
            (poll_pc = "scan" /\ article_post' # None)]_vars
    /\ [][(poll_pc = "scan" /\ poll_pc' \notin {"scan", "enqueue"}) =>
            /\ article_post' = None
            /\ UNCHANGED <<unactioned_articles, review_channel>>]_vars
    /\ [](article_post = None => poll_pc \notin {"enqueue", "send"})

\* The iteration is over: its article is in the queue and is the article
\* of the newest message of the review channel.
C25_Witness ==
    /\ poll_pc = "sleep30"
    /\ article_post # None
    /\ unactioned_articles = <<article_post>>
    /\ Len(review_channel) = 1
    /\ review_channel[1].article = article_post
    /\ review_channel[1].newer = 0

\* C26 (as claimed): once the iteration that appended it is past its send
\* step, every article of the queue has a review post that still carries
\* the buttons.
C26_NoOrphan ==
    poll_pc # "send" =>
        \A i \in 1..Len(unactioned_articles) :
            \E j \in 1..Len(review_channel) :
                /\ review_channel[j].article = unactioned_articles[i]
                /\ review_channel[j].controls

\* C31: the fetch of an iteration never returns an article whose link is
\* on a review post among the HistoryLimit most recent messages of the
\* review channel, with or without its buttons, and a review post is
\* emitted only when every earlier post with the same link has at least
\* HistoryLimit messages after it.
C31_DedupWindow ==
    /\ [][(poll_pc = "scan" /\ article_post' # None) =>
            \A i \in 1..Len(review_channel) :
                review_channel[i].newer < HistoryLimit
                   => review_channel[i].article.link # article_post'.link]_vars
    /\ [][Len(review_channel') > Len(review_channel) =>
            \A i \in 1..Len(review_channel) :
                review_channel[i].article.link
                      = review_channel'[Len(review_channel')].article.link
                   => review_channel[i].newer >= HistoryLimit]_vars

\* A link was suggested again, its first review post HistoryLimit messages
\* back.
C31_Witness ==
    /\ Len(review_channel) = 2
    /\ review_channel[1].article.link = review_channel[2].article.link
    /\ review_channel[1].newer = HistoryLimit
    /\ review_channel[2].newer = 0

-----------------------------------------------------------------------------
(* Properties of the queue lock, under SpecLive.                            *)

\* Handler h has started and stands before the lock.
AtLock(h) == IF h <= Len(handlers) THEN handlers[h].pc = "lock" ELSE FALSE

\* The lock is free or held by a handler that is sending the notice.
HeldForNotice ==
    IF unactioned_articles_lock = 0 THEN TRUE
    ELSE IF unactioned_articles_lock \in 1..Len(handlers)
         THEN handlers[unactioned_articles_lock].pc = "notice"
         ELSE FALSE

\* C35: the lock is held only by a handler that found its article absent
\* and is sending the notice, and is released when that ends; a lock that
\* is held is free again at some time; a handler that waits for the lock
\* gets past it, and so does the poll loop with an article to append.
C35_LockReleased ==
    /\ []HeldForNotice
    /\ (unactioned_articles_lock # 0) ~> (unactioned_articles_lock = 0)
    /\ \A h \in 1..MaxClicks : AtLock(h) ~> ~AtLock(h)
    /\ (poll_pc = "enqueue") ~> (poll_pc = "send")

\* The poll loop has an article to append while a handler holds the lock.
C35_Witness ==
    /\ poll_pc = "enqueue"
    /\ unactioned_articles_lock # 0
    /\ handlers[unactioned_articles_lock].pc = "notice"

-----------------------------------------------------------------------------
(* Properties of summarize_with_lmstudio, under SpecSum.                    *)

\* C6 (as claimed): after a schema request answered with 422, the second
\* request carries tools when LM_USE_TOOLS is on and is the
\* plain-instruction request when it is off.
C6_FallbackOrder ==
    (sum_pc = "returned" /\ ~sum_out.raised /\ sum_in.r1 = HttpStatus(422)) =>
        /\ Len(sum_out.requests) >= 2
        /\ sum_out.requests[2] =
              IF cfg.LM_USE_TOOLS
              THEN [system |-> "summarizer", response_format |-> FALSE,
                    tools |-> TRUE]
              ELSE [system |-> "plain", response_format |-> FALSE,
                    tools |-> FALSE]

\* C6 (amended): after a schema request answered with 422, the second
\* request is the summarizer-prompt request, with tools exactly when
\* LM_USE_TOOLS is on; the plain-instruction request is the third one, sent
\* only when the second brought no summary.
C6_FallbackOrderAmended ==
    (sum_pc = "returned" /\ ~sum_out.raised /\ sum_in.r1 = HttpStatus(422)) =>
        /\ Len(sum_out.requests) \in {2, 3}
        /\ sum_out.requests[1] =
              [system |-> "schema", response_format |-> TRUE, tools |-> FALSE]
        /\ sum_out.requests[2] =
              [system |-> "summarizer", response_format |-> FALSE,
               tools |-> cfg.LM_USE_TOOLS]
        /\ Len(sum_out.requests) = 2 => sum_out.value # None
        /\ Len(sum_out.requests) = 3 =>
              sum_out.requests[3] =
                 [system |-> "plain", response_format |-> FALSE, tools |-> FALSE]

\* Schema mode answered 422 with LM_USE_TOOLS off: three requests went out.
C6_Witness ==
    /\ sum_pc = "returned"
    /\ ~sum_out.raised
    /\ sum_in.r1 = HttpStatus(422)
    /\ ~cfg.LM_USE_TOOLS
    /\ Len(sum_out.requests) = 3
    /\ sum_out.value # None

\* C7 (as claimed): the call never raises and returns None or a mapping
\* with a non-empty title.
C7_NeverRaises ==
    sum_pc = "returned" =>
        /\ ~sum_out.raised
        /\ \/ sum_out.value = None
           \/ /\ sum_out.value.type = "dict"
              /\ sum_out.value.title \notin {Absent, ""}

-----------------------------------------------------------------------------
(* Properties of handle_api_limit, under SpecLimitLive.                     *)

RECURSIVE SleptIn(_)
SleptIn(log) == IF log = <<>> THEN 0 ELSE Head(log).slept + SleptIn(Tail(log))

\* The sleeps and prints of handle_api_limit so far are those of a wait of
\* 15 sleeps of 60 seconds.
FifteenSleeps ==
    /\ \A i \in 1..Len(limit_log) :
          /\ limit_log[i].slept = 60
          /\ limit_log[i].remaining = 15 - i
          /\ limit_log[i].remaining >= 0
    /\ limit_pc = "wait" =>
          /\ Len(limit_log) < 15
          /\ limit_seconds = 900 - 60 * Len(limit_log)
          /\ limit_seconds > 0
    /\ limit_pc = "over" =>
          /\ Len(limit_log) = 15
          /\ SleptIn(limit_log) = 900
          /\ limit_log[1].remaining = 14
          /\ limit_log[15].remaining = 0

\* C32: every sleep of the wait is one of 60 seconds, the print after the
\* i-th sleep names 15 - i minutes, from 14 down to 0 and never a negative
\* number; when the wait is over there were exactly 15 sleeps, 900 seconds
\* in all; and a wait that has started is over at some time and
\* fetch_article returns.
C32_BackoffTerminates ==
    /\ []FifteenSleeps
    /\ (poll_pc = "backoff") ~> (limit_pc = "over")
    /\ (limit_pc = "over") ~> (poll_pc = "sleep30")

\* The wait is over after its fifteenth sleep, fetch_article about to
\* return.
C32_Witness ==
    /\ limit_pc = "over"
    /\ poll_pc = "backoff"
    /\ Len(limit_log) = 15
    /\ limit_seconds = 0

-----------------------------------------------------------------------------
(* Properties of the hour tests, under SpecWindow.                          *)

\* C36 (as claimed): in each of the two poll loops, an iteration takes the
\* 30-minute sleep only in an hour of the fetch window, enters the
\* overnight sleep only in an hour outside it, and the overnight sleep
\* breaks early at exactly the readings of the fetch window.
C36_WindowsAgree ==
    /\ win_pc = "sleep30" => win_fetch
    /\ win_pc = "night" =>
          (~FetchHours(win_impl, win_hour) /\ ~FetchHours(win_impl, win_now))
    /\ win_pc = "broke" => FetchHours(win_impl, win_now)

\* The same for the loop of tasks.py alone.
TasksWindowsAgree == win_impl = "tasks" => C36_WindowsAgree

-----------------------------------------------------------------------------
(* Properties of the overnight wait, under SpecNight.                       *)

\* Seconds from minute m of the day to the next 09:00.
SecondsToNextNine(m) ==
    IF m < 9 * 60 THEN (9 * 60 - m) * 60 ELSE ((24 * 60 - m) + 9 * 60) * 60

\* C11 (as claimed): at every quiet clock reading, before and after
\* midnight, the sleep the wait has left is the number of seconds from that
\* reading to the next 09:00.
C11_SleepUntilNine ==
    night_pc = "sleep" => sleep_seconds = SecondsToNextNine(now)

\* C28: each pass of the wait lets at most 60 seconds go by and reads the
\* clock again; the wait goes on only while the reading is a quiet hour and
\* has time left to sleep, and ends at the first reading with
\* 9 <= hour < 22; so, from every quiet start, the loop is back at its
\* clock check within the first minute of the next 09:00, whatever
\* sleep_seconds was computed.
C28_QuietWait ==
    /\ [][night_pc = "sleep" =>
            /\ (now' - now) % (24 * 60) <= 1
            /\ (9 <= HourOf(now') /\ HourOf(now') < 22) => night_pc' = "clock"
            /\ sleep_seconds' = sleep_seconds - 60]_vars
    /\ [](night_pc = "sleep" =>
            /\ HourOf(now) >= 22 \/ HourOf(now) < 9
            /\ sleep_seconds > 0)
    /\ [](night_pc = "clock" => now = 9 * 60)

\* A wait entered after midnight is over at 09:00 with 24 hours of its
\* computed sleep left.
C28_Witness ==
    /\ night_pc = "clock"
    /\ now = 9 * 60
    /\ sleep_seconds = 24 * 60 * 60

-----------------------------------------------------------------------------
(* Properties of the embeds, under SpecRender.                              *)

\* text is the first n characters of whole, or all of whole when it is
\* shorter.
FirstOf(text, whole, n) ==
    /\ Len(text) = IF Len(whole) < n THEN Len(whole) ELSE n
    /\ \A i \in 1..Len(text) : text[i] = whole[i]

\* The title the claim names: Summary.title when the summary is a mapping
\* with a non-empty title, else the raw title.
ChosenTitle ==
    IF render_in.summary.type # "dict" THEN render_in.title
    ELSE IF render_in.summary.title = None THEN render_in.title
    ELSE IF Len(render_in.summary.title.text) = 0 THEN render_in.title
    ELSE render_in.summary.title.text

\* The body before truncation: the bullets, or the raw summary.
WholeBody ==
    IF render_in.summary.type = "dict"
    THEN Bullets(render_in.summary.key_points)
    ELSE render_in.summary.text

\* C12: for every article, the review embed and the public embed have as
\* title the first 256 characters of the chosen title and as body the
\* first 4000 characters of the untruncated body.
C12_RenderingTruncation ==
    render_pc = "built" =>
        \A e \in {embed.review, embed.public} :
            /\ Len(e.title) <= 256
            /\ FirstOf(e.title, ChosenTitle, 256)
            /\ Len(e.description) <= 4000
            /\ FirstOf(e.description, WholeBody, 4000)

\* A 300-character raw title and a raw summary of 4001 characters.
C12_Witness ==
    /\ render_pc = "built"
    /\ Len(render_in.title) = 300
    /\ render_in.summary.type = "str"
    /\ Len(render_in.summary.text) = 4001
    /\ Len(embed.review.title) = 256
    /\ Len(embed.public.description) = 4000

-----------------------------------------------------------------------------
(* Properties of startup, under SpecMain.                                   *)

\* C13 (as claimed): the bot connects, and runs, only with the credential
\* and every required setting present; with one missing the process exits
\* before any network activity.
C13_ConfigFatal ==
    main_pc \in {"connect", "login_failed", "ready", "running"} =>
        /\ cfg.DISCORD_TOKEN
        /\ cfg.ADMIN_CHANNEL_ID
        /\ cfg.POST_CHANNEL_ID
        /\ cfg.LMSTUDIO_BASE_URL
        /\ cfg.LMSTUDIO_MODEL

\* A response that is a failure: no answer, an error status, or a body that
\* is not JSON.
Failed(r) == r.net # "ok" \/ r.status >= 400 \/ ~r.json

\* A call that went past its first lines and returned.
Summarized == sum_pc = "returned" /\ ~sum_out.raised

\* The answers to the requests the call sent, in order.
Answers == <<sum_in.r1, sum_in.r2, sum_in.r3>>

\* What each strategy makes of its answer.
Attempts ==
    <<SchemaAttempt(sum_in.r1), ToolAttempt(sum_in.r2), PlainAttempt(sum_in.r3)>>

\* C22 (as claimed): the call returns None only after all three strategies
\* have been attempted.
C22_AllAttemptedBeforeNone ==
    (Summarized /\ sum_out.value = None) => Len(sum_out.requests) = 3

\* C22 (amended): a strategy whose request fails is followed by the next
\* strategy, and the call returns None only after all three, except that a
\* connection failure of the schema request ends the call with None at
\* once; the first strategy that yields a summary decides the result.
C22_StrategiesInTurn ==
    Summarized =>
        LET n == Len(sum_out.requests)
        IN  /\ n \in 1..3
            /\ sum_in.r1.net = "conn" => (n = 1 /\ sum_out.value = None)
            /\ \A k \in 1..2 :
                  (n >= k /\ Failed(Answers[k]) /\ sum_in.r1.net # "conn")
                     => n > k
            /\ (sum_out.value = None /\ sum_in.r1.net # "conn") => n = 3
            /\ \A k \in 1..(n - 1) : ~Attempts[k].done
            /\ sum_out.value # None =>
                  (Attempts[n].done /\ sum_out.value = Attempts[n].value)

\* The schema request failed with a network error other than a refused
\* connection, the second request could not connect, the third gave the
\* summary.
C22_Witness ==
    /\ Summarized
    /\ sum_in.r1.net = "other"
    /\ sum_in.r2.net = "conn"
    /\ Len(sum_out.requests) = 3
    /\ sum_out.value = SummaryA

\* C24 (as claimed): when the second strategy decides the result and its
\* response carries tool-call arguments that parse to a mapping with a
\* non-empty title, the result is that mapping.
C24_ArgumentsFirst ==
    (/\ Summarized
     /\ Len(sum_out.requests) = 2
     /\ sum_in.r2.msg.tool_args # Absent
     /\ Accepted(safe_json_parse(sum_in.r2.msg.tool_args)))
        => sum_out.value = safe_json_parse(sum_in.r2.msg.tool_args)

\* C24 (amended): the second strategy parses the message content first and
\* returns it when it is a mapping with a non-empty title; the arguments
\* of the tool call are parsed only when the content gives no such
\* mapping.
C24_ContentFirst ==
    (Summarized /\ Len(sum_out.requests) = 2) =>
        LET fromContent == safe_json_parse(ContentText(sum_in.r2.msg.content))
            fromArgs == safe_json_parse(sum_in.r2.msg.tool_args)
        IN  IF Accepted(fromContent) THEN sum_out.value = fromContent
            ELSE /\ sum_in.r2.msg.tool_args # Absent
                 /\ Accepted(fromArgs)
                 /\ sum_out.value = fromArgs

\* Content and arguments both parse to a summary; the one of the content
\* is returned.
C24_Witness ==
    /\ Summarized
    /\ Len(sum_out.requests) = 2
    /\ sum_in.r2.msg.content = "{title:A}"
    /\ sum_in.r2.msg.tool_args = "{title:B}"
    /\ sum_out.value = SummaryA

=============================================================================
